---- MODULE Spec2Model ----
(***************************************************************************)
(* Model of the menu discovery and dish matching pipeline.                 *)
(*                                                                         *)
(*   Spec      search_dish of DishMatcherV2 / DishMatcher together with    *)
(*             the Menu Locator (MenuParserV2.find_and_parse_menu)         *)
(*   SpecLoc   the progressive-radius loop of process_location             *)
(*   SpecProg  search_dish_batch and search_dish_progressive               *)
(*                                                                         *)
(* A text is abstracted to what the locator reads of it: its length and    *)
(* the number of menu indicators in it.  What find_dish_in_text and        *)
(* extract_price give on a text is an input drawn where _process_menu_text *)
(* runs on it.                                                             *)
(***************************************************************************)
EXTENDS Integers, Sequences, FiniteSets, TLC

\* ------------------------------------------------------------ constants

\* menu_parser_v2.py:77
MIN_CONTENT_LENGTH == 200
\* menu_parser_v2.py:413, count >= 3
MenuIndicatorThreshold == 3
\* menu_parser_v2.py:270, pdf_links[:3]
PdfTryLimit == 3
\* menu_parser_v2.py:71-74; the Cyrillic paths are written transliterated
COMMON_MENU_PATHS ==
    << "/menu", "/menyu", "/food", "/dishes", "/kitchen",
       "/kukhnya", "/catalog", "/assortiment", "/carta" >>

\* ------------------------------------------------------------ bounds

\* most menu indicators counted in one text
MaxInd == 3
\* most PDF links found on one page
MaxPdfLinks == 1

\* places the geo service knows around the user
NumPlaces == 4

\* longest list of restaurants given to search_dish_progressive
MaxRestaurants == 6

\* longest list of restaurants given to search_dish_batch
MaxBatch == 3

\* largest max_concurrent given to search_dish_batch
MaxConcurrent == 2

\* largest target_count given to search_dish_progressive
MaxTarget == 2

\* most operations on the cache in one run
MaxCacheOps == 5

\* most tasks submitted to the task queue
MaxTasks == 2

\* the largest max_retries of a call of HttpClient.get
MaxRetries == 3

\* the concurrent calls of HttpClient.get
NumCalls == 2

\* the seconds of time modelled for the rate limiter
MaxClock == 3

\* the concurrent calls of render_js_page
NumRenders == 2

\* the calls of close_browser
MaxCloses == 1

\* the longest dish name and the longest text, in characters
MaxDishLen == 2
MaxTextLen == 3

\* the offsets modelled beyond the reach of the window of extract_price
MaxFar == 1

\* the updates of the user that are routed
MaxUpdates == 6

\* ------------------------------------------------------------ texts

NoneText == [len |-> 0, ind |-> 0]

Lens == {0, MIN_CONTENT_LENGTH - 1, MIN_CONTENT_LENGTH}

\* the texts a page, a PDF or the cache may hold: the empty text, and texts
\* just below and at the two thresholds
Texts ==
    { t \in [len : Lens, ind : 0..MaxInd] :
        IF t.len = 0 THEN t.ind = 0 ELSE t.ind >= MenuIndicatorThreshold - 1 }

\* find_dish_in_text and extract_price on a text: no dish, the dish without
\* a price, the dish with a price
Matches(t) == IF t.len = 0 THEN {"none"} ELSE {"none", "dish", "dish_price"}

\* the website URLs: "root/menu" is a website URL that itself holds /menu
RootUrls == {"root", "root/menu"}

Min(a, b) == IF a < b THEN a ELSE b

VARIABLES
    \* ---- search_dish and the Menu Locator
    dpc,                 \* search_dish: "start", "locating", "done"
    via,                 \* who calls the locator: "search_dish" or "direct"
    dish_name,           \* "" or the dish searched
    use_browser_fallback,
    website,             \* "None" or the website URL
    mpc,                 \* position in _parse_menu_internal
    html,                \* root fetch: "unset", "None" or "ok"
    main_text,           \* text of the root page
    menu_url,            \* the best link of the root: "unset", "None", "same",
                         \* "link", "pdflink"
    menu_text,           \* text of the followed page
    text,                \* text of the rendered root
    pdf_left,            \* PDF links of the current page still to try
    path_i,              \* index into COMMON_MENU_PATHS
    log,                 \* the calls made so far, in order
    parse_result,        \* what find_and_parse_menu returned
    result,              \* what search_dish returned
    \* ---- process_location, the progressive-radius loop
    lpc,                 \* "idle", "radius", "places", "done", "error"
    current_radius,
    todo,                \* restaurants of the current list not yet iterated
    checked_ids,
    restaurants_with_dish,
    restaurants_checked, \* the places in the list restaurants_checked
    site_calls,          \* calls of site_finder.find_website per place
    locator_calls,       \* calls of find_and_parse_menu per place
    skipped,             \* places the loop passed over as already checked
    \* ---- search_dish_batch and search_dish_progressive
    ppc,                 \* "idle", "batch", "progressive", "returned"
    restaurants,         \* length of the list of restaurants
    target_count,
    on_found,            \* whether a callback is given
    notified,            \* the results on_found was started with
    batch_i,             \* start of the current batch, counted from 0
    tpc,                 \* position of each search_one task
    tres,                \* what each search_one task returned
    max_concurrent,      \* the slots the semaphore was made with
    semaphore,           \* free slots of the semaphore
    found_results,
    returned,            \* the list handed back to the caller
    \* ---- the cache: MenuCache over the SQLite backend
    store,               \* the rows of the table cache, by key
    now,                 \* time.time()
    cache_ops,           \* operations done so far
    shadow,              \* the last text set through each accessor and URL
    cache_ret,           \* what the last get returned
    evicting,            \* a get that read an expired row and has not yet
                         \* deleted it
    \* ---- the task queue: AsyncTaskQueue
    q_running,           \* _running
    queue,               \* the entries of the PriorityQueue in use
    tasks,               \* the tasks submitted, by id
    workers,             \* live worker coroutines
    \* ---- one call of HttpClient.get
    h_pc,                \* where the call is
    h_max_retries,       \* max_retries
    h_attempt,           \* attempt
    h_log,               \* the responses received, and the sleep after each
    h_ret,               \* what get returned
    \* ---- RateLimiter under concurrent calls of HttpClient.get
    r_clock,             \* time.monotonic(), in seconds
    r_last,              \* _last_request_time, by domain
    r_lock,              \* the call inside _locks[domain], or 0
    r_call,              \* the calls of get: position, domain, attempt
    r_reqs,              \* the times of the requests sent, by domain
    \* ---- BrowserService under concurrent render calls and close_browser
    b_instance,          \* BrowserService._instance: a service, or 0 (None)
    b_svc,               \* each service: _initialized, _browser, _init_lock
    b_launched,          \* the number of browsers launched so far
    b_open,              \* the browsers launched and not closed
    b_pages,             \* by render call: the browser of its open page, or 0
    b_call,              \* the render calls: position, service held, outcome
    b_close,             \* close_browser: position, service, calls made
    b_failed,            \* a launch has failed or was cancelled
    \* ---- text_utils: normalize_for_search and find_dish_in_text
    t_dish,              \* dish_name, a string as a sequence of characters
    t_text,              \* text
    t_norm,              \* text, then normalize_for_search of it, applied again
    t_pos,               \* what find_dish_in_text(dish_name, text) returned
    \* ---- text_utils.extract_price
    e_marks,             \* the text: by offset, the price a pattern matches there, or 0
    e_anchor,            \* dish_position
    e_ret,               \* what extract_price returned
    \* ---- bot.handlers: the conversation with one user
    c_state,             \* the FSM state of the chat: "None" or a state of SearchState
    c_data,              \* the dish_name kept in the FSM data, "None" when absent
    c_pc,                \* where the call of process_location in flight stands
    c_outcome,           \* how the last call of process_location went
    c_handled,           \* the handler the last update was routed to
    c_quiet,             \* no other handler ran since process_location last began
    c_updates            \* the number of updates routed so far

dishVars == << dpc, via, dish_name, use_browser_fallback, website, mpc, html,
               main_text, menu_url, menu_text, text, pdf_left, path_i, log, parse_result, result >>

locVars == << lpc, current_radius, todo, checked_ids, restaurants_with_dish,
              restaurants_checked, site_calls, locator_calls, skipped >>

progVars == << ppc, restaurants, target_count, on_found, notified, batch_i,
               tpc, tres,
               max_concurrent, semaphore, found_results, returned >>

cacheVars == << store, now, cache_ops, shadow, cache_ret, evicting >>

queueVars == << q_running, queue, tasks, workers >>

httpVars == << h_pc, h_max_retries, h_attempt, h_log, h_ret >>

rateVars == << r_clock, r_last, r_lock, r_call, r_reqs >>

browserVars == << b_instance, b_svc, b_launched, b_open, b_pages, b_call, b_close, b_failed >>

textVars == << t_dish, t_text, t_norm, t_pos >>

priceVars == << e_marks, e_anchor, e_ret >>

convVars == << c_state, c_data, c_pc, c_outcome, c_handled, c_quiet, c_updates >>

vars == << dishVars, locVars, progVars, cacheVars, queueVars, httpVars, rateVars, browserVars, textVars, priceVars, convVars >>

\* what an action of one part leaves alone
notDishVars == << locVars, progVars, cacheVars, queueVars, httpVars, rateVars, browserVars, textVars, priceVars, convVars >>
notLocVars == << dishVars, progVars, cacheVars, queueVars, httpVars, rateVars, browserVars, textVars, priceVars, convVars >>
notProgVars == << dishVars, locVars, cacheVars, queueVars, httpVars, rateVars, browserVars, textVars, priceVars, convVars >>
notCacheVars == << dishVars, locVars, progVars, queueVars, httpVars, rateVars, browserVars, textVars, priceVars, convVars >>
notQueueVars == << dishVars, locVars, progVars, cacheVars, httpVars, rateVars, browserVars, textVars, priceVars, convVars >>
notHttpVars == << dishVars, locVars, progVars, cacheVars, queueVars, rateVars, browserVars, textVars, priceVars, convVars >>
notRateVars == << dishVars, locVars, progVars, cacheVars, queueVars, httpVars, browserVars, textVars, priceVars, convVars >>
notBrowserVars == << dishVars, locVars, progVars, cacheVars, queueVars, httpVars, rateVars, textVars, priceVars, convVars >>
notTextVars == << dishVars, locVars, progVars, cacheVars, queueVars, httpVars, rateVars, browserVars, priceVars, convVars >>
notPriceVars == << dishVars, locVars, progVars, cacheVars, queueVars, httpVars, rateVars, browserVars, textVars, convVars >>
notConvVars == << dishVars, locVars, progVars, cacheVars, queueVars, httpVars, rateVars, browserVars, textVars, priceVars >>

\* a text long enough to be a menu
LongText == [len |-> MIN_CONTENT_LENGTH, ind |-> MenuIndicatorThreshold]

\* DishSearchResult(restaurant, status=PENDING); menu_item tells whether an
\* item is attached, item_price whether the item carries a price
NoResult ==
    [status |-> "PENDING", menu_url |-> "None", menu_item |-> FALSE,
     item_price |-> FALSE, error_message |-> "None", raised |-> FALSE]

\* MenuParseResult()
NoParse ==
    [success |-> FALSE, menu_url |-> "None", menu_text |-> NoneText,
     source |-> "None", dish_found |-> FALSE, price |-> FALSE,
     error |-> "None", raised |-> FALSE]

\* ------------------------------------------------------------ results

\* MenuParseResult(success=False, ...)
Failure(url, txt, source, err) ==
    [NoParse EXCEPT !.menu_url = url, !.menu_text = txt,
                    !.source = source, !.error = err]

\* _process_menu_text
ProcessMenuText(txt, url, dish, source, m) ==
    [NoParse EXCEPT !.success = TRUE, !.menu_url = url, !.menu_text = txt,
                    !.source = source,
                    !.dish_found = (dish # "" /\ m # "none"),
                    !.price = (dish # "" /\ m = "dish_price")]

\* _page_looks_like_menu: the URL indicators, then the count of indicators
UrlIndicator(url) ==
    url \in {"root/menu", "/menu", "/food", "/dishes", "/kukhnya"}

\* count > 3 in place of count >= 3
PageLooksLikeMenuStrict(txt, url) ==
    UrlIndicator(url) \/ txt.ind > MenuIndicatorThreshold

PageLooksLikeMenu(txt, url) ==
    UrlIndicator(url) \/ txt.ind >= MenuIndicatorThreshold

\* ------------------------------------------------- find_and_parse_menu

\* str(e) of the exceptions the cache backend raises (sqlite3 errors)
CacheErr == "database is locked"

\* asyncio.wait_for expired: except asyncio.TimeoutError
TimeoutResult == Failure("None", NoneText, "None", "Timeout")

\* the except clause left out: the exception leaves find_and_parse_menu
ExceptPropagates(msg) == [NoParse EXCEPT !.raised = TRUE]

\* except Exception as e: MenuParseResult(success=False, error=str(e))
ExceptResult(msg) == Failure("None", NoneText, "None", msg)

Call(op, url, len) == [op |-> op, url |-> url, len |-> len]

\* what a static fetch of a page gives: nothing, or a page with the number
\* of PDF links found on it
PageOutcomes ==
    [ok : {FALSE}, pdfs : {0}] \cup [ok : {TRUE}, pdfs : 0..MaxPdfLinks]

\* the same for the main page, with the text _extract_text gives for it
RootOutcomes ==
    [ok : {FALSE}, pdfs : {0}, text : {NoneText}]
        \cup [ok : {TRUE}, pdfs : 0..MaxPdfLinks, text : Texts]

\* pdf_parser.extract_text_from_url: the cache raises, no text, or a text
PdfOutcomes ==
    [kind : {"raise", "none"}, text : {NoneText}, src : {"pdf_text"}]
        \cup [kind : {"text"}, text : Texts, src : {"pdf_text", "pdf_ocr"}]

\* render_js_page: the cache raises, the render fails, or a rendered page
\* with its text and whether find_menu_links finds a link in it
RenderOutcomes ==
    [kind : {"raise", "fail"}, text : {NoneText}, links : {FALSE}]
        \cup [kind : {"ok"}, text : Texts, links : BOOLEAN]

\* _parse_pdf_menu
ParsePdfMenu(o, dish, m) ==
    IF o.kind = "raise" THEN ExceptResult(CacheErr)
    ELSE IF o.kind = "none" \/ o.text.len < MIN_CONTENT_LENGTH
    THEN Failure("pdf", NoneText, "None", "PDF text extraction failed")
    ELSE ProcessMenuText(o.text, "pdf", dish, o.src, m)

Finish(lg, res) ==
    /\ log' = lg
    /\ parse_result' = res
    /\ mpc' = "done"

\* await menu_cache.set_menu_text(url, text); return result
FinishCached(lg, res, url, t) ==
    \E c \in {"ok", "raise"} :
        Finish(Append(lg, Call("cache_set", url, t.len)),
               IF c = "ok" THEN res ELSE ExceptResult(CacheErr))

\* the cached text is never taken
CacheHitNever(c) == FALSE

\* line 140: if cached_text and len(cached_text) >= MIN_CONTENT_LENGTH
CacheHit(c) == c.kind = "hit" /\ c.text.len > 0 /\ c.text.len >= MIN_CONTENT_LENGTH

\* STEP 1: the cache; the log keeps the length of the text the cache gave
CheckCache ==
    /\ mpc = "cache"
    /\ \E c \in [kind : {"raise", "miss"}, text : {NoneText}]
                    \cup [kind : {"hit"}, text : Texts] :
       \E m \in Matches(c.text) :
         LET lg == Append(log, Call("cache_get", website, c.text.len)) IN
         IF c.kind = "raise" THEN Finish(lg, ExceptResult(CacheErr))
         ELSE IF CacheHit(c)
         THEN Finish(lg, ProcessMenuText(c.text, website, dish_name, "static_html", m))
         ELSE /\ log' = lg
              /\ mpc' = "root"
              /\ UNCHANGED parse_result
    /\ UNCHANGED << dpc, via, dish_name, use_browser_fallback, website, html,
                    main_text, menu_url, menu_text, text, pdf_left, path_i, result >>
    /\ UNCHANGED notDishVars

\* STEP 2: static fetch of the main page
FetchRoot ==
    /\ mpc = "root"
    /\ \E o \in RootOutcomes :
         LET lg == Append(log, Call("http_get", website, 0)) IN
         IF ~o.ok
         THEN /\ html' = "None"
              /\ UNCHANGED << main_text, pdf_left >>
              /\ IF use_browser_fallback
                 THEN /\ log' = lg
                      /\ mpc' = "render_root"
                      /\ UNCHANGED parse_result
                 ELSE Finish(lg, Failure("None", NoneText, "None", "Failed to fetch page"))
         ELSE /\ html' = "ok"
              /\ main_text' = o.text
              /\ pdf_left' = Min(o.pdfs, PdfTryLimit)
              /\ log' = lg
              /\ mpc' = "pdf_root"
              /\ UNCHANGED parse_result
    /\ UNCHANGED << dpc, via, dish_name, use_browser_fallback, website,
                    menu_url, menu_text, text, path_i, result >>
    /\ UNCHANGED notDishVars

\* _try_pdf_menu: the next PDF link of the page
TryPdf(pc) ==
    /\ mpc = pc
    /\ pdf_left > 0
    /\ \E o \in PdfOutcomes : \E m \in Matches(o.text) :
         LET lg == Append(log, Call("pdf_extract", "pdf", 0))
             r  == ParsePdfMenu(o, dish_name, m) IN
         IF r.success \/ o.kind = "raise"
         THEN Finish(lg, r) /\ UNCHANGED pdf_left
         ELSE /\ log' = lg
              /\ pdf_left' = pdf_left - 1
              /\ UNCHANGED << mpc, parse_result >>
    /\ UNCHANGED << dpc, via, dish_name, use_browser_fallback, website, html,
                    main_text, menu_url, menu_text, text, path_i, result >>
    /\ UNCHANGED notDishVars

\* STEP 3: PDF links of the main page
TryPdfRoot == TryPdf("pdf_root")

\* STEP 4: is the main page the menu
CheckMainPage ==
    /\ mpc = "pdf_root"
    /\ pdf_left = 0
    /\ \E m \in Matches(main_text) :
         IF PageLooksLikeMenu(main_text, website)
         THEN LET r == ProcessMenuText(main_text, website, dish_name, "static_html", m) IN
              IF r.success /\ main_text.len > 0
              THEN FinishCached(log, r, website, main_text)
              ELSE Finish(log, r)
         ELSE /\ mpc' = "find_link"
              /\ UNCHANGED << log, parse_result >>
    /\ UNCHANGED << dpc, via, dish_name, use_browser_fallback, website, html,
                    main_text, menu_url, menu_text, text, pdf_left, path_i, result >>
    /\ UNCHANGED notDishVars

\* STEP 5: _find_menu_url gives no link, the website itself, a page link or
\* a link that is_pdf_url accepts
FindMenuUrl ==
    /\ mpc = "find_link"
    /\ \E u \in {"None", "same", "link", "pdflink"} :
         /\ menu_url' = u
         /\ mpc' = CASE u = "link"    -> "follow"
                     [] u = "pdflink" -> "follow_pdf"
                     [] OTHER         -> "common"
    /\ path_i' = 1
    /\ UNCHANGED << dpc, via, dish_name, use_browser_fallback, website, html,
                    main_text, menu_text, text, pdf_left, log, parse_result,
                    result >>
    /\ UNCHANGED notDishVars

\* lines 188-189: the best link is a PDF, its parse is returned as it is
FollowPdf ==
    /\ mpc = "follow_pdf"
    /\ \E o \in PdfOutcomes : \E m \in Matches(o.text) :
         Finish(Append(log, Call("pdf_extract", "pdflink", 0)),
                ParsePdfMenu(o, dish_name, m))
    /\ UNCHANGED << dpc, via, dish_name, use_browser_fallback, website, html,
                    main_text, menu_url, menu_text, text, pdf_left, path_i, result >>
    /\ UNCHANGED notDishVars

\* lines 192-194: fetch the page of the best link
FollowLink ==
    /\ mpc = "follow"
    /\ \E o \in PageOutcomes :
         /\ log' = Append(log, Call("http_get", "link", 0))
         /\ IF o.ok
            THEN /\ pdf_left' = Min(o.pdfs, PdfTryLimit)
                 /\ mpc' = "pdf_link"
            ELSE /\ mpc' = "common"
                 /\ UNCHANGED pdf_left
    /\ UNCHANGED << dpc, via, dish_name, use_browser_fallback, website, html,
                    main_text, menu_url, menu_text, text, path_i, parse_result, result >>
    /\ UNCHANGED notDishVars

\* lines 196-199: PDF links of the followed page
TryPdfLink == TryPdf("pdf_link")

\* line 203 with the test of the length left out
MenuPageAcceptedAnyLength(t) == t.len > 0

\* line 203: the followed page is taken when its text is long enough
MenuPageAccepted(t) == t.len > 0 /\ t.len >= MIN_CONTENT_LENGTH

\* lines 201-211: extract the text of the followed page
CheckMenuPage ==
    /\ mpc = "pdf_link"
    /\ pdf_left = 0
    /\ \E t \in Texts : \E m \in Matches(t) :
         /\ menu_text' = t
         /\ IF MenuPageAccepted(t)
            THEN FinishCached(log, ProcessMenuText(t, "link", dish_name,
                                                   "static_html", m),
                              "link", t)
            ELSE /\ mpc' = "common"
                 /\ UNCHANGED << log, parse_result >>
    /\ UNCHANGED << dpc, via, dish_name, use_browser_fallback, website, html,
                    main_text, menu_url, text, pdf_left, path_i, result >>
    /\ UNCHANGED notDishVars

\* the loop left after the first path
PathsExhaustedAtFirst(i) == i >= 1

\* line 214: the loop over COMMON_MENU_PATHS ends after the last path
PathsExhausted(i) == i >= Len(COMMON_MENU_PATHS)

\* lines 239-243 left out: no browser after the static strategies
BrowserNeverAfterStatic(use, t) == FALSE

\* lines 239-241: the browser is tried when the main text is short
BrowserAfterStatic(use, t) == use /\ t.len < MIN_CONTENT_LENGTH

\* STEP 6 and STEP 7: one common path; after the last, browser or failure
CommonPath ==
    /\ mpc = "common"
    /\ \E ok \in BOOLEAN, test_text \in Texts : \E m \in Matches(test_text) :
         LET path == COMMON_MENU_PATHS[path_i]
             lg   == Append(log, Call("http_get", path, 0)) IN
         IF ok /\ test_text.len > 0 /\ PageLooksLikeMenu(test_text, path)
         THEN /\ FinishCached(lg, ProcessMenuText(test_text, path, dish_name,
                                                  "static_html", m),
                              path, test_text)
              /\ UNCHANGED path_i
         ELSE IF ~PathsExhausted(path_i)
         THEN /\ path_i' = path_i + 1
              /\ log' = lg
              /\ UNCHANGED << mpc, parse_result >>
         ELSE IF BrowserAfterStatic(use_browser_fallback, main_text)
         THEN /\ mpc' = "render_root"
              /\ log' = lg
              /\ UNCHANGED << path_i, parse_result >>
         ELSE /\ Finish(lg, Failure(website, main_text, "None", "Menu not found"))
              /\ UNCHANGED path_i
    /\ UNCHANGED << dpc, via, dish_name, use_browser_fallback, website, html,
                    main_text, menu_url, menu_text, text, pdf_left, result >>
    /\ UNCHANGED notDishVars

\* _try_browser_fallback, lines 305-323: render the root
RenderRoot ==
    /\ mpc = "render_root"
    /\ \E o \in RenderOutcomes : \E m \in Matches(o.text) :
         LET lg == Append(log, Call("render", website, 0)) IN
         IF o.kind = "raise"
         THEN Finish(lg, ExceptResult(CacheErr)) /\ UNCHANGED text
         ELSE IF o.kind = "fail"
         THEN /\ Finish(lg, Failure(website, NoneText, "None", "Browser rendering failed"))
              /\ UNCHANGED text
         ELSE IF o.text.len > 0 /\ o.text.len >= MIN_CONTENT_LENGTH
         THEN /\ Finish(lg, ProcessMenuText(o.text, website, dish_name, "browser_render", m))
              /\ UNCHANGED text
         ELSE IF o.links
         THEN /\ text' = o.text
              /\ log' = lg
              /\ mpc' = "render_link"
              /\ UNCHANGED parse_result
         ELSE /\ Finish(lg, Failure(website, o.text, "browser_render",
                                    "Insufficient content after browser render"))
              /\ UNCHANGED text
    /\ UNCHANGED << dpc, via, dish_name, use_browser_fallback, website, html,
                    main_text, menu_url, menu_text, pdf_left, path_i, result >>
    /\ UNCHANGED notDishVars

\* lines 326-341: render the first menu link of the rendered root
RenderLink ==
    /\ mpc = "render_link"
    /\ \E o \in { r \in RenderOutcomes : ~r.links } : \E m \in Matches(o.text) :
         LET lg == Append(log, Call("render", "blink", 0)) IN
         IF o.kind = "raise"
         THEN Finish(lg, ExceptResult(CacheErr))
         ELSE IF o.kind = "ok" /\ o.text.len >= MIN_CONTENT_LENGTH
         THEN Finish(lg, ProcessMenuText(o.text, "blink", dish_name, "browser_render", m))
         ELSE Finish(lg, Failure(website, text, "browser_render",
                                 "Insufficient content after browser render"))
    /\ UNCHANGED << dpc, via, dish_name, use_browser_fallback, website, html,
                    main_text, menu_url, menu_text, text, pdf_left, path_i, result >>
    /\ UNCHANGED notDishVars

\* lines 119-125: the overall timeout expires while the locator waits
Timeout ==
    /\ mpc \notin {"idle", "done"}
    /\ Finish(log, TimeoutResult)
    /\ UNCHANGED << dpc, via, dish_name, use_browser_fallback, website, html,
                    main_text, menu_url, menu_text, text, pdf_left, path_i, result >>
    /\ UNCHANGED notDishVars

\* ----------------------------------------------------------- search_dish

\* dish_matcher_v2.py:87-90
SiteNotFoundResult == [NoResult EXCEPT !.status = "SITE_NOT_FOUND"]

\* line 145 with the test of the price left out
ProcessParseResultNoPriceTest(pr) ==
    IF ~pr.success
    THEN [NoResult EXCEPT !.status = "MENU_UNAVAILABLE", !.error_message = pr.error]
    ELSE IF ~pr.dish_found
    THEN [NoResult EXCEPT !.status = "MENU_UNAVAILABLE", !.menu_url = pr.menu_url,
                          !.error_message = "Dish not found in menu"]
    ELSE [NoResult EXCEPT !.status = "FOUND", !.menu_url = pr.menu_url,
                          !.menu_item = TRUE, !.item_price = pr.price]

\* dish_matcher_v2.py:113-152: the result built from the locator's answer
ProcessParseResult(pr) ==
    IF pr.raised THEN [NoResult EXCEPT !.raised = TRUE]
    ELSE IF ~pr.success
    THEN [NoResult EXCEPT
            !.status = "MENU_UNAVAILABLE",
            !.error_message = IF pr.error \in {"None", ""}
                              THEN "Menu not found" ELSE pr.error]
    ELSE IF ~pr.dish_found
    THEN [NoResult EXCEPT
            !.status = "MENU_UNAVAILABLE",
            !.menu_url = pr.menu_url,
            !.error_message = "Dish not found in menu"]
    ELSE [NoResult EXCEPT
            !.status = IF pr.price THEN "FOUND" ELSE "FOUND_NO_PRICE",
            !.menu_url = pr.menu_url,
            !.menu_item = TRUE,
            !.item_price = pr.price]

\* DishMatcherV2.search_dish as a function of the pipeline outcome
SearchDishResult(w, pr) ==
    IF w = "None" THEN SiteNotFoundResult ELSE ProcessParseResult(pr)

\* dish_matcher.py:26-107: DishMatcher.search_dish; url is what find_menu_url
\* gave, t what get_menu_text gave for it
SearchDishV1Result(w, url, t, m) ==
    IF w = "None" THEN SiteNotFoundResult
    ELSE IF url = "None"
    THEN [NoResult EXCEPT !.status = "MENU_UNAVAILABLE",
                          !.error_message = "menu page not found"]
    ELSE IF t.len = 0
    THEN [NoResult EXCEPT !.status = "MENU_UNAVAILABLE", !.menu_url = url,
                          !.error_message = "menu not loaded"]
    ELSE IF m = "none"
    THEN [NoResult EXCEPT !.status = "MENU_UNAVAILABLE", !.menu_url = url,
                          !.error_message = "dish not found in menu"]
    ELSE [NoResult EXCEPT !.status = IF m = "dish_price" THEN "FOUND"
                                     ELSE "FOUND_NO_PRICE",
                          !.menu_url = url, !.menu_item = TRUE,
                          !.item_price = (m = "dish_price")]

\* dish_matcher.py:57-68: what find_menu_url and get_menu_text of the first
\* menu parser gave, kept in the shape of a parse result
V1Outcome(url, t, m) ==
    IF url = "None" THEN Failure("None", NoneText, "None", "no menu url")
    ELSE IF t.len = 0 THEN Failure(url, NoneText, "None", "no menu text")
    ELSE ProcessMenuText(t, url, "soup", "static_html", m)

\* dish_matcher_v2.py:84-111: find the website, then call the locator
FindWebsite ==
    /\ dpc = "start"
    /\ via = "search_dish"
    /\ \E w \in {"None"} \cup RootUrls :
         /\ website' = w
         /\ IF w = "None"
            THEN /\ result' = SearchDishResult(w, parse_result)
                 /\ dpc' = "done"
                 /\ UNCHANGED mpc
            ELSE /\ dpc' = "locating"
                 /\ mpc' = "cache"
                 /\ UNCHANGED result
    /\ UNCHANGED << via, dish_name, use_browser_fallback, html, main_text, menu_url, menu_text,
                    text, pdf_left, path_i, log, parse_result >>
    /\ UNCHANGED notDishVars

\* dish_matcher_v2.py:113-152
SearchDishReturn ==
    /\ dpc = "locating"
    /\ via = "search_dish"
    /\ mpc = "done"
    /\ result' = SearchDishResult(website, parse_result)
    /\ dpc' = "done"
    /\ UNCHANGED << via, dish_name, use_browser_fallback, website, mpc, html,
                    main_text, menu_url, menu_text, text, pdf_left, path_i, log,
                    parse_result >>
    /\ UNCHANGED notDishVars

\* find_and_parse_menu called with use_browser_fallback=False (search_dish
\* covers the calls with True)
CallLocator ==
    /\ dpc = "start"
    /\ via = "direct"
    /\ \E w \in RootUrls : website' = w
    /\ dpc' = "locating"
    /\ mpc' = "cache"
    /\ UNCHANGED << via, dish_name, use_browser_fallback, html, main_text, menu_url, menu_text,
                    text, pdf_left, path_i, log, parse_result,
                    result >>
    /\ UNCHANGED notDishVars

\* DishMatcher.search_dish (the first matcher), its collaborators' answers
\* drawn at once
SearchDishV1 ==
    /\ dpc = "start"
    /\ via = "v1"
    /\ \E w \in {"None"} \cup RootUrls, url \in {"None", "link"}, t \in Texts :
       \E m \in Matches(t) :
         /\ website' = w
         /\ parse_result' = IF w = "None" THEN NoParse ELSE V1Outcome(url, t, m)
         /\ result' = SearchDishV1Result(w, url, t, m)
    /\ dpc' = "done"
    /\ UNCHANGED << via, dish_name, use_browser_fallback, mpc, html, main_text,
                    menu_url, menu_text, text, pdf_left, path_i, log >>
    /\ UNCHANGED notDishVars

Init ==
    /\ dpc = "start"
    /\ via \in {"search_dish", "direct", "v1"}
    /\ dish_name \in {"", "soup"}
    /\ use_browser_fallback = (via # "direct")
    /\ (via = "v1" => dish_name = "soup")
    /\ website = "None"
    /\ mpc = "idle"
    /\ html = "unset"
    /\ main_text = NoneText
    /\ menu_url = "unset"
    /\ menu_text = NoneText
    /\ text = NoneText
    /\ pdf_left = 0
    /\ path_i = 1
    /\ log = << >>
    /\ parse_result = NoParse
    /\ result = NoResult
    \* no process_location and no batch search is under way
    /\ lpc = "idle"
    /\ current_radius = 0
    /\ todo = {}
    /\ checked_ids = {}
    /\ restaurants_with_dish = << >>
    /\ restaurants_checked = {}
    /\ site_calls = << >>
    /\ locator_calls = << >>
    /\ skipped = {}
    /\ ppc = "idle"
    /\ restaurants = 0
    /\ target_count = 0
    /\ on_found = FALSE
    /\ notified = << >>
    /\ batch_i = 0
    /\ tpc = << >>
    /\ tres = << >>
    /\ max_concurrent = 0
    /\ semaphore = 0
    /\ found_results = << >>
    /\ returned = << >>
    /\ store = << >>
    /\ now = 0
    /\ cache_ops = 0
    /\ shadow = << >>
    /\ cache_ret = << >>
    /\ evicting = << >>
    /\ q_running = FALSE
    /\ queue = {}
    /\ tasks = << >>
    /\ workers = 0
    /\ h_pc = "idle"
    /\ h_max_retries = 0
    /\ h_attempt = 0
    /\ h_log = << >>
    /\ h_ret = "pending"
    /\ r_clock = 0
    /\ r_last = << >>
    /\ r_lock = << >>
    /\ r_call = << >>
    /\ r_reqs = << >>
    /\ b_instance = 0
    /\ b_svc = << >>
    /\ b_launched = 0
    /\ b_open = {}
    /\ b_pages = << >>
    /\ b_call = << >>
    /\ b_close = << >>
    /\ b_failed = FALSE
    /\ t_dish = << >>
    /\ t_text = << >>
    /\ t_norm = << >>
    /\ t_pos = -2
    /\ e_marks = << >>
    /\ e_anchor = 0
    /\ e_ret = << >>
    /\ c_state = "None"
    /\ c_data = "None"
    /\ c_pc = "idle"
    /\ c_outcome = "none"
    /\ c_handled = "none"
    /\ c_quiet = FALSE
    /\ c_updates = 0

NextDish ==
    \/ FindWebsite
    \/ CallLocator
    \/ SearchDishV1
    \/ CheckCache
    \/ FetchRoot
    \/ TryPdfRoot
    \/ CheckMainPage
    \/ FindMenuUrl
    \/ FollowPdf
    \/ FollowLink
    \/ TryPdfLink
    \/ CheckMenuPage
    \/ CommonPath
    \/ RenderRoot
    \/ RenderLink
    \/ Timeout
    \/ SearchDishReturn

Next == NextDish

Spec == Init /\ [][Next]_vars

\* ------------------------------------------------------- process_location

\* handlers.py:168-170
TARGET_COUNT == 3
max_radius == 1000
radius_step == 200

Places == 1..NumPlaces

\* handlers.py:206: the restaurants of a list are taken in its order; the
\* lists are taken to be in the order of the identifiers
First(S) == {x \in S : \A y \in S : x <= y}

\* what find_and_parse_menu hands back to its caller
LocatorAnswers ==
    {TimeoutResult, ExceptResult(CacheErr),
     Failure("None", NoneText, "None", "Menu not found")}
    \cup {ProcessMenuText(LongText, "link", "soup", "static_html", m) :
             m \in Matches(LongText)}

\* handlers.py:238-244: dish_position is not None and page_text
DishOnPage(pr) == pr.dish_found /\ pr.menu_text.len > 0

\* the test of checked_ids left out
AlreadyCheckedNever(r, ids) == FALSE

\* handlers.py:208: if restaurant.id in checked_ids
AlreadyChecked(r, ids) == r \in ids

\* handlers.py:213 and 280: len(restaurants_with_dish) >= target_count
EnoughFound(found) == Len(found) >= TARGET_COUNT

\* the next turn of the loop over the radii, or its end
NextRadius ==
    IF current_radius + radius_step > max_radius
    THEN lpc' = "done" /\ UNCHANGED current_radius
    ELSE lpc' = "radius" /\ current_radius' = current_radius + radius_step

\* handlers.py:199-203: the geo service gives the restaurants within the
\* radius; with none the loop goes on to the next radius
SearchRestaurants ==
    /\ lpc = "radius"
    /\ \E S \in SUBSET Places :
         IF S = {}
         THEN NextRadius /\ UNCHANGED todo
         ELSE lpc' = "places" /\ todo' = S /\ UNCHANGED current_radius
    /\ UNCHANGED << checked_ids, restaurants_with_dish, restaurants_checked,
                    site_calls, locator_calls, skipped >>
    /\ UNCHANGED notLocVars

\* handlers.py:208-209: a restaurant checked before is passed over
SkipChecked ==
    /\ lpc = "places"
    /\ \E r \in First(todo) :
         /\ AlreadyChecked(r, checked_ids)
         /\ todo' = todo \ {r}
         /\ skipped' = skipped \cup {r}
    /\ UNCHANGED << lpc, current_radius, checked_ids, restaurants_with_dish,
                    restaurants_checked, site_calls, locator_calls >>
    /\ UNCHANGED notLocVars

\* handlers.py:210-214: enough restaurants found, the loop over the
\* restaurants is left
BreakEnough ==
    /\ lpc = "places"
    /\ \E r \in First(todo) :
         /\ ~AlreadyChecked(r, checked_ids)
         /\ checked_ids' = checked_ids \cup {r}
    /\ EnoughFound(restaurants_with_dish)
    /\ todo' = {}
    /\ UNCHANGED << lpc, current_radius, restaurants_with_dish,
                    restaurants_checked, site_calls, locator_calls, skipped >>
    /\ UNCHANGED notLocVars

\* handlers.py:217-225: no website, or the website of a social network
NoWebsite ==
    /\ lpc = "places"
    /\ ~EnoughFound(restaurants_with_dish)
    /\ \E r \in First(todo) :
         /\ ~AlreadyChecked(r, checked_ids)
         /\ checked_ids' = checked_ids \cup {r}
         /\ site_calls' = [site_calls EXCEPT ![r] = @ + 1]
         /\ todo' = todo \ {r}
    /\ UNCHANGED << lpc, current_radius, restaurants_with_dish,
                    restaurants_checked, locator_calls, skipped >>
    /\ UNCHANGED notLocVars

\* handlers.py:217 and 340-344: find_website raises, the search ends with
\* the error message
FindWebsiteRaises ==
    /\ lpc = "places"
    /\ ~EnoughFound(restaurants_with_dish)
    /\ \E r \in First(todo) :
         /\ ~AlreadyChecked(r, checked_ids)
         /\ checked_ids' = checked_ids \cup {r}
         /\ site_calls' = [site_calls EXCEPT ![r] = @ + 1]
    /\ lpc' = "error"
    /\ UNCHANGED << current_radius, todo, restaurants_with_dish,
                    restaurants_checked, locator_calls, skipped >>
    /\ UNCHANGED notLocVars

\* handlers.py:217-277: the website is found and the locator is asked
LocateMenu ==
    /\ lpc = "places"
    /\ ~EnoughFound(restaurants_with_dish)
    /\ \E r \in First(todo), pr \in LocatorAnswers :
         /\ ~AlreadyChecked(r, checked_ids)
         /\ checked_ids' = checked_ids \cup {r}
         /\ site_calls' = [site_calls EXCEPT ![r] = @ + 1]
         /\ locator_calls' = [locator_calls EXCEPT ![r] = @ + 1]
         /\ todo' = todo \ {r}
         /\ IF DishOnPage(pr)
            THEN /\ restaurants_with_dish' = Append(restaurants_with_dish, r)
                 /\ UNCHANGED restaurants_checked
            ELSE /\ restaurants_checked' = restaurants_checked \cup {r}
                 /\ UNCHANGED restaurants_with_dish
    /\ UNCHANGED << lpc, current_radius, skipped >>
    /\ UNCHANGED notLocVars

\* handlers.py:279-282: the list is done; stop with enough found, else go
\* on to the next radius
EndRadius ==
    /\ lpc = "places"
    /\ todo = {}
    /\ IF EnoughFound(restaurants_with_dish)
       THEN lpc' = "done" /\ UNCHANGED current_radius
       ELSE NextRadius
    /\ UNCHANGED << todo, checked_ids, restaurants_with_dish,
                    restaurants_checked, site_calls, locator_calls, skipped >>
    /\ UNCHANGED notLocVars

\* handlers.py:163-170: the state before the first radius
InitLoc ==
    /\ lpc = "radius"
    /\ current_radius = radius_step
    /\ todo = {}
    /\ checked_ids = {}
    /\ restaurants_with_dish = << >>
    /\ restaurants_checked = {}
    /\ site_calls = [p \in Places |-> 0]
    /\ locator_calls = [p \in Places |-> 0]
    /\ skipped = {}
    \* no search_dish call and no batch search is under way
    /\ dpc = "idle"
    /\ via = "search_dish"
    /\ dish_name = "soup"
    /\ use_browser_fallback = TRUE
    /\ website = "None"
    /\ mpc = "idle"
    /\ html = "unset"
    /\ main_text = NoneText
    /\ menu_url = "unset"
    /\ menu_text = NoneText
    /\ text = NoneText
    /\ pdf_left = 0
    /\ path_i = 1
    /\ log = << >>
    /\ parse_result = NoParse
    /\ result = NoResult
    /\ ppc = "idle"
    /\ restaurants = 0
    /\ target_count = 0
    /\ on_found = FALSE
    /\ notified = << >>
    /\ batch_i = 0
    /\ tpc = << >>
    /\ tres = << >>
    /\ max_concurrent = 0
    /\ semaphore = 0
    /\ found_results = << >>
    /\ returned = << >>
    /\ store = << >>
    /\ now = 0
    /\ cache_ops = 0
    /\ shadow = << >>
    /\ cache_ret = << >>
    /\ evicting = << >>
    /\ q_running = FALSE
    /\ queue = {}
    /\ tasks = << >>
    /\ workers = 0
    /\ h_pc = "idle"
    /\ h_max_retries = 0
    /\ h_attempt = 0
    /\ h_log = << >>
    /\ h_ret = "pending"
    /\ r_clock = 0
    /\ r_last = << >>
    /\ r_lock = << >>
    /\ r_call = << >>
    /\ r_reqs = << >>
    /\ b_instance = 0
    /\ b_svc = << >>
    /\ b_launched = 0
    /\ b_open = {}
    /\ b_pages = << >>
    /\ b_call = << >>
    /\ b_close = << >>
    /\ b_failed = FALSE
    /\ t_dish = << >>
    /\ t_text = << >>
    /\ t_norm = << >>
    /\ t_pos = -2
    /\ e_marks = << >>
    /\ e_anchor = 0
    /\ e_ret = << >>
    /\ c_state = "None"
    /\ c_data = "None"
    /\ c_pc = "idle"
    /\ c_outcome = "none"
    /\ c_handled = "none"
    /\ c_quiet = FALSE
    /\ c_updates = 0

NextLoc ==
    \/ SearchRestaurants
    \/ SkipChecked
    \/ BreakEnough
    \/ NoWebsite
    \/ FindWebsiteRaises
    \/ LocateMenu
    \/ EndRadius

SpecLoc == InitLoc /\ [][NextLoc]_vars

\* ---------------------------- search_dish_batch, search_dish_progressive

\* dish_matcher_v2.py:290
batch_size == 5

\* dish_matcher_v2.py:264: asyncio.Semaphore(2)
ProgressiveSlots == 2

Tasks == 1..restaurants

\* what search_dish returns, over the websites found and the locator's answers
SearchDishResults ==
    {SearchDishResult(w, pr) : w \in {"None", "root"}, pr \in LocatorAnswers}

\* str(e) of an exception that leaves search_dish
SearchErr == "search failed"

\* a result with the restaurant it is about
Tag(k, res) ==
    [restaurant |-> k, status |-> res.status,
     error_message |-> res.error_message]

\* search_one returned None, or has not returned
NoneReturn == [restaurant |-> 0, status |-> "None", error_message |-> "None"]

\* the except clause of search_one building a result without a status
SearchRaisedPending(msg) == NoResult

\* no except clause in search_one: the exception reaches gather
SearchRaisedEscapes(msg) == [NoResult EXCEPT !.status = "None"]

\* dish_matcher_v2.py:221-227: the except clause of search_one in the batch
SearchRaised(msg) ==
    [NoResult EXCEPT !.status = "MENU_UNAVAILABLE", !.error_message = msg]

\* the length of the found list is never looked at
TargetReachedNever(found, target) == FALSE

\* dish_matcher_v2.py:267, 271 and 292: len(found_results) >= target_count
TargetReached(found, target) == Len(found) >= target

\* the first task of the list at the given position: the event loop runs
\* the tasks of a gather, and the waiters of a semaphore, in their order
FirstAt(pc) ==
    {k \in Tasks : tpc[k] = pc /\ \A j \in Tasks : tpc[j] = pc => k <= j}

\* the batch is never waited for
IdleAlways(k) == TRUE

\* a task that is not under way: gather has returned when all are
Idle(k) == tpc[k] \in {"none", "done", "raised", "callback_raised"}

\* dish_matcher_v2.py:229-230: the tasks of the batch search are made
BatchGather ==
    /\ ppc = "batch"
    /\ restaurants > 0
    /\ \A k \in Tasks : tpc[k] = "none"
    /\ tpc' = [k \in Tasks |-> "new"]
    /\ UNCHANGED << ppc, restaurants, max_concurrent, target_count, on_found,
                    notified, batch_i, tres, semaphore, found_results,
                    returned >>
    /\ UNCHANGED notProgVars

\* dish_matcher_v2.py:289-297: the next batch of the progressive search
ProgressiveNextBatch ==
    /\ ppc = "progressive"
    /\ \A k \in Tasks : Idle(k)
    /\ batch_i < restaurants
    /\ ~TargetReached(found_results, target_count)
    /\ tpc' = [k \in Tasks |->
                 IF batch_i < k /\ k <= batch_i + batch_size
                 THEN "new" ELSE tpc[k]]
    /\ batch_i' = batch_i + batch_size
    /\ UNCHANGED << ppc, restaurants, max_concurrent, target_count, on_found,
                    notified, tres, semaphore, found_results, returned >>
    /\ UNCHANGED notProgVars

\* search_one up to its first wait: line 214 (batch), lines 267-271
\* (progressive)
TaskStart ==
    /\ \E k \in FirstAt("new") :
         IF ppc = "progressive" /\ TargetReached(found_results, target_count)
         THEN /\ tpc' = [tpc EXCEPT ![k] = "done"]
              /\ UNCHANGED semaphore
         ELSE IF semaphore > 0
         THEN /\ tpc' = [tpc EXCEPT ![k] = "searching"]
              /\ semaphore' = semaphore - 1
         ELSE /\ tpc' = [tpc EXCEPT ![k] = "waiting"]
              /\ UNCHANGED semaphore
    /\ UNCHANGED << ppc, restaurants, max_concurrent, target_count, on_found,
                    notified, batch_i, tres, found_results, returned >>
    /\ UNCHANGED notProgVars

\* a waiting search_one gets the semaphore; the progressive one tests the
\* length again (line 271) and gives the semaphore back if it is reached
TaskAcquire ==
    /\ semaphore > 0
    /\ \E k \in FirstAt("waiting") :
         IF ppc = "progressive" /\ TargetReached(found_results, target_count)
         THEN /\ tpc' = [tpc EXCEPT ![k] = "done"]
              /\ UNCHANGED semaphore
         ELSE /\ tpc' = [tpc EXCEPT ![k] = "searching"]
              /\ semaphore' = semaphore - 1
    /\ UNCHANGED << ppc, restaurants, max_concurrent, target_count, on_found,
                    notified, batch_i, tres, found_results, returned >>
    /\ UNCHANGED notProgVars

\* every status counts as found
IsFoundAny(status) == TRUE

\* dish_matcher_v2.py:276: result.status in (FOUND, FOUND_NO_PRICE)
IsFound(status) == status \in {"FOUND", "FOUND_NO_PRICE"}

\* search_dish returns to search_one: lines 216-220 (batch), 273-287
\* (progressive)
SearchDishDone ==
    /\ \E k \in Tasks, res \in SearchDishResults :
         /\ tpc[k] = "searching"
         /\ IF ppc = "batch"
            THEN /\ tres' = [tres EXCEPT ![k] = Tag(k, res)]
                 /\ tpc' = [tpc EXCEPT ![k] = "done"]
                 /\ semaphore' = semaphore + 1
                 /\ UNCHANGED << found_results, notified >>
            ELSE IF IsFound(res.status)
            THEN /\ found_results' = Append(found_results, Tag(k, res))
                 /\ tres' = [tres EXCEPT ![k] = Tag(k, res)]
                 /\ IF on_found
                    THEN /\ tpc' = [tpc EXCEPT ![k] = "callback"]
                         /\ notified' = Append(notified, Tag(k, res))
                         /\ UNCHANGED semaphore
                    ELSE /\ tpc' = [tpc EXCEPT ![k] = "done"]
                         /\ semaphore' = semaphore + 1
                         /\ UNCHANGED notified
            ELSE /\ tpc' = [tpc EXCEPT ![k] = "done"]
                 /\ semaphore' = semaphore + 1
                 /\ UNCHANGED << tres, found_results, notified >>
    /\ UNCHANGED << ppc, restaurants, max_concurrent, target_count, on_found,
                    batch_i, returned >>
    /\ UNCHANGED notProgVars

\* search_dish raises: the batch turns it into a result (lines 221-227), the
\* progressive search leaves it to gather, which drops it
SearchDishRaises ==
    /\ \E k \in Tasks :
         /\ tpc[k] = "searching"
         /\ tpc' = [tpc EXCEPT ![k] = IF ppc = "batch" THEN "raised"
                                      ELSE "done"]
         /\ tres' = IF ppc = "batch"
                    THEN [tres EXCEPT ![k] = Tag(k, SearchRaised(SearchErr))]
                    ELSE tres
    /\ semaphore' = semaphore + 1
    /\ UNCHANGED << ppc, restaurants, max_concurrent, target_count, on_found,
                    notified, batch_i, found_results, returned >>
    /\ UNCHANGED notProgVars

\* lines 279-285: on_found returns or raises; search_one returns the result
CallbackDone ==
    /\ \E k \in Tasks, raises \in BOOLEAN :
         /\ tpc[k] = "callback"
         /\ tpc' = [tpc EXCEPT ![k] = IF raises THEN "callback_raised"
                                      ELSE "done"]
    /\ semaphore' = semaphore + 1
    /\ UNCHANGED << ppc, restaurants, max_concurrent, target_count, on_found,
                    notified, batch_i, tres, found_results, returned >>
    /\ UNCHANGED notProgVars

\* dish_matcher_v2.py:235: isinstance(result, DishSearchResult)
IsDishSearchResult(r) == r.status # "None"

\* dish_matcher_v2.py:230-240: gather is done, the results that are
\* DishSearchResults are handed back in the order of the restaurants
BatchReturn ==
    /\ ppc = "batch"
    /\ \A k \in Tasks : tpc[k] \in {"done", "raised"}
    /\ returned' = SelectSeq([k \in Tasks |-> tres[k]], IsDishSearchResult)
    /\ ppc' = "returned"
    /\ UNCHANGED << restaurants, max_concurrent, target_count, on_found,
                    notified, batch_i, tpc, tres, semaphore, found_results >>
    /\ UNCHANGED notProgVars

\* dish_matcher_v2.py:291-299: no batch is left or the target is reached
ProgressiveReturn ==
    /\ ppc = "progressive"
    /\ \A k \in Tasks : Idle(k)
    /\ batch_i >= restaurants \/ TargetReached(found_results, target_count)
    /\ returned' = found_results
    /\ ppc' = "returned"
    /\ UNCHANGED << restaurants, max_concurrent, target_count, on_found,
                    notified, batch_i, tpc, tres, semaphore, found_results >>
    /\ UNCHANGED notProgVars

\* a call of search_dish_batch or of search_dish_progressive
InitProg ==
    /\ ppc \in {"batch", "progressive"}
    /\ restaurants \in 0..(IF ppc = "batch" THEN MaxBatch ELSE MaxRestaurants)
    /\ target_count \in IF ppc = "batch" THEN {0} ELSE 1..MaxTarget
    /\ on_found \in IF ppc = "batch" THEN {FALSE} ELSE BOOLEAN
    /\ notified = << >>
    /\ batch_i = 0
    /\ tpc = [k \in 1..restaurants |-> "none"]
    /\ tres = [k \in 1..restaurants |-> NoneReturn]
    /\ max_concurrent \in IF ppc = "batch" THEN 1..MaxConcurrent
                          ELSE {ProgressiveSlots}
    /\ semaphore = max_concurrent
    /\ found_results = << >>
    /\ returned = << >>
    \* no search_dish call and no process_location is under way
    /\ dpc = "idle"
    /\ via = "search_dish"
    /\ dish_name = "soup"
    /\ use_browser_fallback = TRUE
    /\ website = "None"
    /\ mpc = "idle"
    /\ html = "unset"
    /\ main_text = NoneText
    /\ menu_url = "unset"
    /\ menu_text = NoneText
    /\ text = NoneText
    /\ pdf_left = 0
    /\ path_i = 1
    /\ log = << >>
    /\ parse_result = NoParse
    /\ result = NoResult
    /\ lpc = "idle"
    /\ current_radius = 0
    /\ todo = {}
    /\ checked_ids = {}
    /\ restaurants_with_dish = << >>
    /\ restaurants_checked = << >>
    /\ site_calls = << >>
    /\ locator_calls = << >>
    /\ skipped = {}
    /\ store = << >>
    /\ now = 0
    /\ cache_ops = 0
    /\ shadow = << >>
    /\ cache_ret = << >>
    /\ evicting = << >>
    /\ q_running = FALSE
    /\ queue = {}
    /\ tasks = << >>
    /\ workers = 0
    /\ h_pc = "idle"
    /\ h_max_retries = 0
    /\ h_attempt = 0
    /\ h_log = << >>
    /\ h_ret = "pending"
    /\ r_clock = 0
    /\ r_last = << >>
    /\ r_lock = << >>
    /\ r_call = << >>
    /\ r_reqs = << >>
    /\ b_instance = 0
    /\ b_svc = << >>
    /\ b_launched = 0
    /\ b_open = {}
    /\ b_pages = << >>
    /\ b_call = << >>
    /\ b_close = << >>
    /\ b_failed = FALSE
    /\ t_dish = << >>
    /\ t_text = << >>
    /\ t_norm = << >>
    /\ t_pos = -2
    /\ e_marks = << >>
    /\ e_anchor = 0
    /\ e_ret = << >>
    /\ c_state = "None"
    /\ c_data = "None"
    /\ c_pc = "idle"
    /\ c_outcome = "none"
    /\ c_handled = "none"
    /\ c_quiet = FALSE
    /\ c_updates = 0

NextProg ==
    \/ BatchGather
    \/ ProgressiveNextBatch
    \/ TaskStart
    \/ TaskAcquire
    \/ SearchDishDone
    \/ SearchDishRaises
    \/ CallbackDone
    \/ BatchReturn
    \/ ProgressiveReturn

SpecProg == InitProg /\ [][NextProg]_vars

\* ------------------------------------------------------------ the cache

\* cache.py:228-229
PDF_TTL == 86400
HTML_TTL == 3600

\* the accessors of MenuCache with their key prefix and TTL (cache.py:267-312)
Kinds == {"text", "pdf"}

Prefix(kind) == kind

Ttl(kind) == IF kind = "pdf" THEN PDF_TTL ELSE HTML_TTL

Urls == {"u1", "u2"}

CacheTexts == {"", "menu"}

\* the first 16 hex digits of the SHA-256 of "<url>:"; the two URLs have
\* different digests
Digest(url) == IF url = "u1" THEN "9f1c" ELSE "03ab"

\* cache.py:260-265: MenuCache._make_key
MakeKey(prefix, url) == << prefix, Digest(url) >>

CacheKeys == {MakeKey(Prefix(kind), url) : kind \in Kinds, url \in Urls}

\* no row for the key; expires_at = 0 stands for NULL
NoRow == [present |-> FALSE, value |-> "", expires_at |-> 0]

\* seq: the number of the operation, in the order they began
NoShadow == [written |-> FALSE, value |-> "", at |-> 0, seq |-> 0]

NoRet == [op |-> "none", kind |-> "", url |-> "", none |-> TRUE,
          value |-> "", at |-> 0, seq |-> 0]

\* the test of the expiry left out
ExpiredNever(row, t) == FALSE

\* cache.py:87: row["expires_at"] and row["expires_at"] < time.time()
Expired(row, t) == row.expires_at # 0 /\ row.expires_at < t

\* cache.py:74-92: SQLiteCache._get_sync up to the test of the expiry: what
\* the SELECT and the test give
GetSync(st, key, t) ==
    IF ~st[key].present
    THEN [none |-> TRUE, value |-> "", expired |-> FALSE]
    ELSE IF Expired(st[key], t)
    THEN [none |-> TRUE, value |-> "", expired |-> TRUE]
    ELSE [none |-> FALSE, value |-> st[key].value, expired |-> FALSE]

\* cache.py:94-104: SQLiteCache._set_sync: INSERT OR REPLACE
SetSync(st, key, value, ttl, t) ==
    [st EXCEPT ![key] = [present |-> TRUE, value |-> value,
                         expires_at |-> IF ttl # 0 THEN t + ttl ELSE 0]]

\* cache.py:267-278: get_pdf_text gives None for an empty text;
\* cache.py:302-306: get_menu_text gives what the backend gave
AccessorReturn(kind, r) ==
    IF kind = "pdf" /\ ~r.none /\ r.value = ""
    THEN [r EXCEPT !.none = TRUE]
    ELSE r

\* set_menu_text, set_pdf_text
CacheSet ==
    /\ cache_ops < MaxCacheOps
    /\ \E kind \in Kinds, url \in Urls, v \in CacheTexts :
         /\ store' = SetSync(store, MakeKey(Prefix(kind), url), v, Ttl(kind), now)
         /\ shadow' = [shadow EXCEPT ![<< kind, url >>] =
                          [written |-> TRUE, value |-> v, at |-> now,
                           seq |-> cache_ops]]
    /\ cache_ret' = NoRet
    /\ cache_ops' = cache_ops + 1
    /\ UNCHANGED << now, evicting >>
    /\ UNCHANGED notCacheVars

\* get_menu_text, get_pdf_text: the SELECT of _get_sync and the test of the
\* expiry; a row found expired is deleted by a statement of its own, which
\* other threads of the executor may get ahead of
CacheGet ==
    /\ cache_ops < MaxCacheOps
    /\ evicting.op = "none"
    /\ \E kind \in Kinds, url \in Urls :
         LET r == GetSync(store, MakeKey(Prefix(kind), url), now)
             a == AccessorReturn(kind, r)
             ret == [op |-> "get", kind |-> kind, url |-> url,
                     none |-> a.none, value |-> a.value, at |-> now,
                     seq |-> cache_ops] IN
         IF r.expired
         THEN evicting' = ret /\ cache_ret' = NoRet
         ELSE cache_ret' = ret /\ UNCHANGED evicting
    /\ cache_ops' = cache_ops + 1
    /\ UNCHANGED << store, now, shadow >>
    /\ UNCHANGED notCacheVars

\* cache.py:88-90: DELETE FROM cache WHERE key = ?, commit, return None
CacheEvict ==
    /\ evicting.op = "get"
    /\ store' = [store EXCEPT ![MakeKey(Prefix(evicting.kind), evicting.url)] = NoRow]
    /\ cache_ret' = evicting
    /\ evicting' = NoRet
    /\ UNCHANGED << now, cache_ops, shadow >>
    /\ UNCHANGED notCacheVars

\* cache.py:106-111 and test_v2_pipeline.py:243-244: backend.delete of the
\* key of an accessor
CacheDelete ==
    /\ cache_ops < MaxCacheOps
    /\ \E kind \in Kinds, url \in Urls :
         /\ store' = [store EXCEPT ![MakeKey(Prefix(kind), url)] = NoRow]
         /\ shadow' = [shadow EXCEPT ![<< kind, url >>] = NoShadow]
    /\ cache_ret' = NoRet
    /\ cache_ops' = cache_ops + 1
    /\ UNCHANGED << now, evicting >>
    /\ UNCHANGED notCacheVars

\* cache.py:117-125: cleanup removes the rows whose expiry has passed
CacheCleanup ==
    /\ cache_ops < MaxCacheOps
    /\ store' = [k \in DOMAIN store |->
                   IF store[k].expires_at # 0 /\ store[k].expires_at < now
                   THEN NoRow ELSE store[k]]
    /\ cache_ret' = NoRet
    /\ cache_ops' = cache_ops + 1
    /\ UNCHANGED << now, shadow, evicting >>
    /\ UNCHANGED notCacheVars

\* time passes: a second, or the whole of a TTL
Tick ==
    /\ cache_ops < MaxCacheOps
    /\ \E dt \in {1, HTML_TTL, PDF_TTL} : now' = now + dt
    /\ cache_ops' = cache_ops + 1
    /\ UNCHANGED << store, shadow, cache_ret, evicting >>
    /\ UNCHANGED notCacheVars

\* an empty table
InitCache ==
    /\ store = [k \in CacheKeys |-> NoRow]
    /\ now = 1
    /\ cache_ops = 0
    /\ shadow = [a \in Kinds \X Urls |-> NoShadow]
    /\ cache_ret = NoRet
    /\ evicting = NoRet
    \* nothing else is under way
    /\ dpc = "idle"
    /\ via = "search_dish"
    /\ dish_name = "soup"
    /\ use_browser_fallback = TRUE
    /\ website = "None"
    /\ mpc = "idle"
    /\ html = "unset"
    /\ main_text = NoneText
    /\ menu_url = "unset"
    /\ menu_text = NoneText
    /\ text = NoneText
    /\ pdf_left = 0
    /\ path_i = 1
    /\ log = << >>
    /\ parse_result = NoParse
    /\ result = NoResult
    /\ lpc = "idle"
    /\ current_radius = 0
    /\ todo = {}
    /\ checked_ids = {}
    /\ restaurants_with_dish = << >>
    /\ restaurants_checked = << >>
    /\ site_calls = << >>
    /\ locator_calls = << >>
    /\ skipped = {}
    /\ ppc = "idle"
    /\ restaurants = 0
    /\ target_count = 0
    /\ on_found = FALSE
    /\ notified = << >>
    /\ batch_i = 0
    /\ tpc = << >>
    /\ tres = << >>
    /\ max_concurrent = 0
    /\ semaphore = 0
    /\ found_results = << >>
    /\ returned = << >>
    /\ q_running = FALSE
    /\ queue = {}
    /\ tasks = << >>
    /\ workers = 0
    /\ h_pc = "idle"
    /\ h_max_retries = 0
    /\ h_attempt = 0
    /\ h_log = << >>
    /\ h_ret = "pending"
    /\ r_clock = 0
    /\ r_last = << >>
    /\ r_lock = << >>
    /\ r_call = << >>
    /\ r_reqs = << >>
    /\ b_instance = 0
    /\ b_svc = << >>
    /\ b_launched = 0
    /\ b_open = {}
    /\ b_pages = << >>
    /\ b_call = << >>
    /\ b_close = << >>
    /\ b_failed = FALSE
    /\ t_dish = << >>
    /\ t_text = << >>
    /\ t_norm = << >>
    /\ t_pos = -2
    /\ e_marks = << >>
    /\ e_anchor = 0
    /\ e_ret = << >>
    /\ c_state = "None"
    /\ c_data = "None"
    /\ c_pc = "idle"
    /\ c_outcome = "none"
    /\ c_handled = "none"
    /\ c_quiet = FALSE
    /\ c_updates = 0

NextCache ==
    \/ CacheSet
    \/ CacheGet
    \/ CacheEvict
    \/ CacheDelete
    \/ CacheCleanup
    \/ Tick

SpecCache == InitCache /\ [][NextCache]_vars

\* ------------------------------------------------------- the task queue

\* task_queue.py:435: task_queue = AsyncTaskQueue(max_workers=3)
max_workers == 3

\* task_queue.py:36-40: TaskPriority LOW, NORMAL, HIGH
Priorities == {0, 1, 2}

\* the priority taken as the key: the lowest priority is served first
QueueKeyByValue(priority) == priority

\* task_queue.py:329: (3 - priority.value, task_id), lower number first
QueueKey(priority) == 3 - priority

\* task_queue.py:175-179: the handlers registered; "unknown" has none
HasHandler(task_type) == task_type = "menu_search"

\* what is submitted: the task type and the completion callback, which is
\* one given to submit ("user") or on_complete of submit_and_wait ("wait")
Submissions ==
    { [task_type |-> "menu_search", cb |-> "user"],
      [task_type |-> "menu_search", cb |-> "wait"],
      [task_type |-> "unknown", cb |-> "wait"] }

\* TaskResult(task_id, success, result, error); none: nothing returned yet;
\* status: the status of the task when submit_and_wait returned
NoTaskResult == [none |-> TRUE, success |-> FALSE, error |-> "None",
                 status |-> "None"]

\* task_queue.py:273-278
TaskResultOf(t) ==
    [none |-> FALSE, success |-> (t.status = "completed"), error |-> t.error,
     status |-> t.status]

\* task_queue.py:308-316: Task(...), status PENDING
NewTask(sub, priority) ==
    [task_type |-> sub.task_type, priority |-> priority, status |-> "pending",
     error |-> "None", cb |-> sub.cb, phase |-> "queued",
     wait |-> IF sub.cb = "wait" THEN "waiting" ELSE "none",
     ret |-> NoTaskResult,
     \* the statuses the task has had, and whether a task of higher priority
     \* was waiting when a worker took this one
     hist |-> << "pending" >>, passed_higher |-> FALSE]

\* an assignment to task.status
SetStatus(t, status) ==
    [t EXCEPT !.status = status, !.hist = Append(t.hist, status)]

\* the entries of the queue with the smallest key: PriorityQueue.get takes
\* one of them (among equal keys the task ids, which are random, decide)
Front(q) == {e \in q : \A f \in q : e.key <= f.key}

\* workers that hold a task
Busy == Cardinality({i \in 1..Len(tasks) :
                        tasks[i].phase \in {"executing", "nohandler", "callback"}})

\* the test of the status left out: a cancelled task is run
IsCancelledNever(status) == FALSE

\* task_queue.py:231: if task.status == TaskStatus.CANCELLED: continue
IsCancelled(status) == status = "cancelled"

\* task_queue.py:286-332: submit, which starts the queue when it is not
\* running (185-198: a new PriorityQueue and max_workers workers)
Submit ==
    /\ Len(tasks) < MaxTasks
    /\ \E sub \in Submissions, p \in Priorities :
         LET id == Len(tasks) + 1
             e == [key |-> QueueKey(p), id |-> id] IN
         /\ tasks' = Append(tasks, NewTask(sub, p))
         /\ queue' = IF q_running THEN queue \cup {e} ELSE {e}
    /\ q_running' = TRUE
    /\ workers' = IF q_running THEN workers ELSE max_workers
    /\ UNCHANGED notQueueVars

\* task_queue.py:218-234 and 244-245: a worker takes the first entry; a
\* cancelled task is passed over, any other is set RUNNING
Dequeue ==
    /\ q_running
    /\ Busy < workers
    /\ \E e \in Front(queue) :
         /\ queue' = queue \ {e}
         /\ LET t == tasks[e.id] IN
            tasks' = [tasks EXCEPT ![e.id] =
                LET u == [t EXCEPT !.passed_higher =
                             \E f \in queue \ {e} :
                                tasks[f.id].priority > t.priority] IN
                IF IsCancelled(t.status)
                THEN [u EXCEPT !.phase = "skipped"]
                ELSE [SetStatus(u, "running") EXCEPT
                               !.phase = IF HasHandler(t.task_type)
                                         THEN "executing" ELSE "nohandler"]]
    /\ UNCHANGED << q_running, workers >>
    /\ UNCHANGED notQueueVars

\* task_queue.py:247-252: no handler for the task type: FAILED, and
\* _execute_task returns before the callback
NoHandler ==
    /\ \E i \in 1..Len(tasks) :
         /\ tasks[i].phase = "nohandler"
         /\ tasks' = [tasks EXCEPT ![i] =
                [SetStatus(@, "failed") EXCEPT
                          !.error = "Unknown task type",
                          !.phase = "finished"]]
    /\ UNCHANGED << q_running, queue, workers >>
    /\ UNCHANGED notQueueVars

\* the status a task has after its callback raised
AfterCallback(status) == status

\* task_queue.py:256-280: the handler returns or raises; on_complete of
\* submit_and_wait (349-351) runs at once and submit_and_wait, if it still
\* waits, returns what on_complete stored (361-362); a callback given to
\* submit is awaited
HandlerDone ==
    /\ \E i \in 1..Len(tasks), ok \in BOOLEAN :
         /\ tasks[i].phase = "executing"
         /\ LET t == [SetStatus(tasks[i],
                                 IF ok THEN "completed" ELSE "failed") EXCEPT
                        !.error = IF ok THEN "None" ELSE "handler failed"] IN
            tasks' = [tasks EXCEPT ![i] =
                IF t.cb = "wait"
                THEN [t EXCEPT !.phase = "finished", !.cb = "none",
                               !.ret = IF t.wait = "waiting"
                                       THEN TaskResultOf(t) ELSE t.ret,
                               !.wait = "returned"]
                ELSE IF t.cb = "user"
                THEN [t EXCEPT !.phase = "callback"]
                ELSE [t EXCEPT !.phase = "finished"]]
    /\ UNCHANGED << q_running, queue, workers >>
    /\ UNCHANGED notQueueVars

\* task_queue.py:272-284: the callback returns or raises; the exception is
\* logged, the callback is removed
TaskCallbackDone ==
    /\ \E i \in 1..Len(tasks), raises \in BOOLEAN :
         /\ tasks[i].phase = "callback"
         /\ LET t == tasks[i] IN
            tasks' = [tasks EXCEPT ![i] =
                [(IF raises /\ AfterCallback(t.status) # t.status
                  THEN SetStatus(t, AfterCallback(t.status)) ELSE t) EXCEPT
                          !.phase = IF raises THEN "callback_raised"
                                    ELSE "finished",
                          !.cb = "none"]]
    /\ UNCHANGED << q_running, queue, workers >>
    /\ UNCHANGED notQueueVars

\* task_queue.py:385-391: cancel_task: what it returns, and the task after it
cancel_task(t) ==
    IF t.status = "pending"
    THEN [ret |-> TRUE, task |-> SetStatus(t, "cancelled")]
    ELSE [ret |-> FALSE, task |-> t]

\* cancel_task is called by who holds the id of a task: the caller of submit
\* (332); the id of a task of submit_and_wait stays inside it (353), where
\* the timeout uses it
CancelTask ==
    /\ \E i \in 1..Len(tasks) :
         /\ tasks[i].wait = "none"
         /\ tasks' = [tasks EXCEPT ![i] = cancel_task(tasks[i]).task]
    /\ UNCHANGED << q_running, queue, workers >>
    /\ UNCHANGED notQueueVars

\* task_queue.py:363-365: the wait times out: cancel_task, then
\* TaskResult(success=False, error="Timeout")
WaitTimeout ==
    /\ \E i \in 1..Len(tasks) :
         /\ tasks[i].wait = "waiting"
         /\ LET t == tasks[i] IN
            tasks' = [tasks EXCEPT ![i] =
                [(IF t.status = "pending"
                  THEN SetStatus(t, "cancelled") ELSE t) EXCEPT
                          !.wait = "returned",
                          !.ret = [none |-> FALSE, success |-> FALSE,
                                   error |-> "Timeout", status |-> t.status]]]
    /\ UNCHANGED << q_running, queue, workers >>
    /\ UNCHANGED notQueueVars

\* task_queue.py:200-212: stop cancels the workers: a task whose handler a
\* worker was awaiting (257) stays RUNNING, a callback under way is dropped;
\* a task without handler is failed by its worker before the cancellation
\* reaches it, no await standing between lines 244 and 248
Stop ==
    /\ q_running
    /\ q_running' = FALSE
    /\ workers' = 0
    /\ tasks' = [i \in 1..Len(tasks) |->
                   IF tasks[i].phase = "executing"
                   THEN [tasks[i] EXCEPT !.phase = "abandoned"]
                   ELSE IF tasks[i].phase = "callback"
                   THEN [tasks[i] EXCEPT !.phase = "finished", !.cb = "none"]
                   ELSE tasks[i]]
    /\ UNCHANGED queue
    /\ UNCHANGED notQueueVars

\* task_queue.py:158-173: a queue that has not been started
InitQueue ==
    /\ q_running = FALSE
    /\ queue = {}
    /\ tasks = << >>
    /\ workers = 0
    \* nothing else is under way
    /\ dpc = "idle"
    /\ via = "search_dish"
    /\ dish_name = "soup"
    /\ use_browser_fallback = TRUE
    /\ website = "None"
    /\ mpc = "idle"
    /\ html = "unset"
    /\ main_text = NoneText
    /\ menu_url = "unset"
    /\ menu_text = NoneText
    /\ text = NoneText
    /\ pdf_left = 0
    /\ path_i = 1
    /\ log = << >>
    /\ parse_result = NoParse
    /\ result = NoResult
    /\ lpc = "idle"
    /\ current_radius = 0
    /\ todo = {}
    /\ checked_ids = {}
    /\ restaurants_with_dish = << >>
    /\ restaurants_checked = << >>
    /\ site_calls = << >>
    /\ locator_calls = << >>
    /\ skipped = {}
    /\ ppc = "idle"
    /\ restaurants = 0
    /\ target_count = 0
    /\ on_found = FALSE
    /\ notified = << >>
    /\ batch_i = 0
    /\ tpc = << >>
    /\ tres = << >>
    /\ max_concurrent = 0
    /\ semaphore = 0
    /\ found_results = << >>
    /\ returned = << >>
    /\ store = << >>
    /\ now = 0
    /\ cache_ops = 0
    /\ shadow = << >>
    /\ cache_ret = << >>
    /\ evicting = << >>
    /\ h_pc = "idle"
    /\ h_max_retries = 0
    /\ h_attempt = 0
    /\ h_log = << >>
    /\ h_ret = "pending"
    /\ r_clock = 0
    /\ r_last = << >>
    /\ r_lock = << >>
    /\ r_call = << >>
    /\ r_reqs = << >>
    /\ b_instance = 0
    /\ b_svc = << >>
    /\ b_launched = 0
    /\ b_open = {}
    /\ b_pages = << >>
    /\ b_call = << >>
    /\ b_close = << >>
    /\ b_failed = FALSE
    /\ t_dish = << >>
    /\ t_text = << >>
    /\ t_norm = << >>
    /\ t_pos = -2
    /\ e_marks = << >>
    /\ e_anchor = 0
    /\ e_ret = << >>
    /\ c_state = "None"
    /\ c_data = "None"
    /\ c_pc = "idle"
    /\ c_outcome = "none"
    /\ c_handled = "none"
    /\ c_quiet = FALSE
    /\ c_updates = 0

NextQueue ==
    \/ Submit
    \/ Dequeue
    \/ NoHandler
    \/ HandlerDone
    \/ TaskCallbackDone
    \/ CancelTask
    \/ WaitTimeout
    \/ Stop

SpecQueue == InitQueue /\ [][NextQueue]_vars

\* the workers go on: a worker that can take, run or finish a task does so
\* (task_queue.py:217-234), and the handlers and callbacks terminate
SpecQueueFair ==
    /\ SpecQueue
    /\ WF_vars(Dequeue)
    /\ WF_vars(NoHandler)
    /\ WF_vars(HandlerDone)
    /\ WF_vars(TaskCallbackDone)

\* ------------------------------------------------------- HttpClient.get

\* http_client.py:146-162: the request raises (asyncio.TimeoutError, a
\* network error, any other exception): no status
Raised == 0

\* the outcomes of one request: a status, or the request raises
Responses == {200, 204, 403, 404, 429, 500, 502, 503, Raised}

\* http_client.py:134: response.status >= 500
ServerError(r) == r >= 500

\* http_client.py:125: the backoff after a 429
Backoff(attempt) == 2 ^ attempt

\* http_client.py:137: if attempt == 0
RetryServerError(attempt) == attempt = 0

\* a 403 is retried like a 429
RetriedAlsoForbidden(r, attempt) ==
    \/ r \in {429, 403}
    \/ ServerError(r) /\ RetryServerError(attempt)

\* http_client.py:123-139: the responses after which the loop continues:
\* a 429, and a server error at the first attempt
Retried(r, attempt) ==
    \/ r = 429
    \/ ServerError(r) /\ RetryServerError(attempt)

\* http_client.py:84-111: the call, up to the loop
HttpGet ==
    /\ h_pc = "idle"
    /\ \E n \in 1..MaxRetries : h_max_retries' = n
    /\ h_pc' = "loop"
    /\ h_attempt' = 0
    /\ UNCHANGED << h_log, h_ret >>
    /\ UNCHANGED notHttpVars

\* http_client.py:113-162: one pass of the loop: the request and what its
\* outcome leads to
HttpAttempt ==
    /\ h_pc = "loop"
    /\ h_attempt < h_max_retries
    /\ \E r \in Responses :
         LET again == Retried(r, h_attempt)
             sleep == IF r = 429 THEN Backoff(h_attempt)
                      ELSE IF again THEN 1 ELSE 0 IN
         /\ h_log' = Append(h_log, [status |-> r, attempt |-> h_attempt,
                                    sleep |-> sleep])
         /\ IF again
            THEN /\ h_attempt' = h_attempt + 1
                 /\ UNCHANGED << h_pc, h_ret >>
            ELSE /\ h_pc' = "done"
                 /\ h_ret' = IF r = 200 THEN "text" ELSE "None"
                 /\ UNCHANGED h_attempt
    /\ UNCHANGED h_max_retries
    /\ UNCHANGED notHttpVars

\* http_client.py:164: the attempts are used up
HttpGiveUp ==
    /\ h_pc = "loop"
    /\ h_attempt = h_max_retries
    /\ h_pc' = "done"
    /\ h_ret' = "None"
    /\ UNCHANGED << h_max_retries, h_attempt, h_log >>
    /\ UNCHANGED notHttpVars

\* no call of get yet
InitHttp ==
    /\ h_pc = "idle"
    /\ h_max_retries = 0
    /\ h_attempt = 0
    /\ h_log = << >>
    /\ h_ret = "pending"
    \* nothing else is under way
    /\ dpc = "idle"
    /\ via = "search_dish"
    /\ dish_name = "soup"
    /\ use_browser_fallback = TRUE
    /\ website = "None"
    /\ mpc = "idle"
    /\ html = "unset"
    /\ main_text = NoneText
    /\ menu_url = "unset"
    /\ menu_text = NoneText
    /\ text = NoneText
    /\ pdf_left = 0
    /\ path_i = 1
    /\ log = << >>
    /\ parse_result = NoParse
    /\ result = NoResult
    /\ lpc = "idle"
    /\ current_radius = 0
    /\ todo = {}
    /\ checked_ids = {}
    /\ restaurants_with_dish = << >>
    /\ restaurants_checked = << >>
    /\ site_calls = << >>
    /\ locator_calls = << >>
    /\ skipped = {}
    /\ ppc = "idle"
    /\ restaurants = 0
    /\ target_count = 0
    /\ on_found = FALSE
    /\ notified = << >>
    /\ batch_i = 0
    /\ tpc = << >>
    /\ tres = << >>
    /\ max_concurrent = 0
    /\ semaphore = 0
    /\ found_results = << >>
    /\ returned = << >>
    /\ store = << >>
    /\ now = 0
    /\ cache_ops = 0
    /\ shadow = << >>
    /\ cache_ret = << >>
    /\ evicting = << >>
    /\ q_running = FALSE
    /\ queue = {}
    /\ tasks = << >>
    /\ workers = 0
    /\ r_clock = 0
    /\ r_last = << >>
    /\ r_lock = << >>
    /\ r_call = << >>
    /\ r_reqs = << >>
    /\ b_instance = 0
    /\ b_svc = << >>
    /\ b_launched = 0
    /\ b_open = {}
    /\ b_pages = << >>
    /\ b_call = << >>
    /\ b_close = << >>
    /\ b_failed = FALSE
    /\ t_dish = << >>
    /\ t_text = << >>
    /\ t_norm = << >>
    /\ t_pos = -2
    /\ e_marks = << >>
    /\ e_anchor = 0
    /\ e_ret = << >>
    /\ c_state = "None"
    /\ c_data = "None"
    /\ c_pc = "idle"
    /\ c_outcome = "none"
    /\ c_handled = "none"
    /\ c_quiet = FALSE
    /\ c_updates = 0

NextHttp ==
    \/ HttpGet
    \/ HttpAttempt
    \/ HttpGiveUp

SpecHttp == InitHttp /\ [][NextHttp]_vars

\* a call that is under way goes on: every await of get returns (the
\* session has a total timeout, http_client.py:56, and the sleeps are finite)
SpecHttpFair == SpecHttp /\ WF_vars(HttpAttempt) /\ WF_vars(HttpGiveUp)

\* ------------------------------- RateLimiter and concurrent calls of get

\* the domains requested: one of the default limiter, one of the Yandex
\* limiter (http_client.py:73-82)
Domains == {"site", "yandex"}

\* http_client.py:24, 47-50 and config.py:23: min_interval, in seconds:
\* 1 / 1.0 for the default limiter, yandex_delay_seconds for Yandex
MinInterval(domain) == IF domain = "yandex" THEN 2 ELSE 1

\* http_client.py:89: max_retries: int = 3
DefaultMaxRetries == 3

\* the concurrent calls of get
Calls == 1..NumCalls

\* the outcomes of a request that matter to the loop
RateResponses == {200, 429, 500}

\* a call that has not started
NoCall == [pc |-> "idle", domain |-> "None", attempt |-> 0, wake |-> 0]

\* http_client.py:117: session.get: the request goes out now
Issue(domain) == [r_reqs EXCEPT ![domain] = Append(@, r_clock)]

\* http_client.py:117-144: what the response leads to: the loop goes on
\* after a sleep (127, 138), or the call returns
AfterResponse(call, r) ==
    IF Retried(r, call.attempt) /\ call.attempt + 1 < DefaultMaxRetries
    THEN [call EXCEPT !.pc = "sleeping",
                      !.wake = r_clock + (IF r = 429 THEN Backoff(call.attempt)
                                          ELSE 1),
                      !.attempt = call.attempt + 1]
    ELSE [call EXCEPT !.pc = "done"]

\* http_client.py:105-109: get is called and asks for the limiter
RateGet ==
    /\ \E c \in Calls, d \in Domains :
         /\ r_call[c].pc = "idle"
         /\ r_call' = [r_call EXCEPT ![c] = [@ EXCEPT !.pc = "acquire",
                                                      !.domain = d]]
    /\ UNCHANGED << r_clock, r_last, r_lock, r_reqs >>
    /\ UNCHANGED notRateVars

\* http_client.py:30-39 and 111-117: the call takes the lock of its domain;
\* when the last acquire is min_interval old it records the time, leaves
\* the lock and sends its first request, otherwise it sleeps in the lock
RateAcquire ==
    /\ \E c \in Calls, r \in RateResponses :
         LET call == r_call[c]
             d == call.domain IN
         /\ call.pc = "acquire"
         /\ r_lock[d] = 0
         /\ IF r_clock - r_last[d] < MinInterval(d)
            THEN /\ r_lock' = [r_lock EXCEPT ![d] = c]
                 /\ r_call' = [r_call EXCEPT ![c] =
                       [call EXCEPT !.pc = "limited",
                                    !.wake = r_last[d] + MinInterval(d)]]
                 /\ UNCHANGED << r_last, r_reqs >>
            ELSE /\ r_last' = [r_last EXCEPT ![d] = r_clock]
                 /\ r_reqs' = Issue(d)
                 /\ r_call' = [r_call EXCEPT ![c] = AfterResponse(call, r)]
                 /\ UNCHANGED r_lock
    /\ UNCHANGED r_clock
    /\ UNCHANGED notRateVars

\* http_client.py:37-39 and 111-117: the sleep in the lock is over: the time
\* is recorded, the lock left and the first request sent
RateWake ==
    /\ \E c \in Calls, r \in RateResponses :
         LET call == r_call[c]
             d == call.domain IN
         /\ call.pc = "limited"
         /\ r_clock >= call.wake
         /\ r_last' = [r_last EXCEPT ![d] = r_clock]
         /\ r_lock' = [r_lock EXCEPT ![d] = 0]
         /\ r_reqs' = Issue(d)
         /\ r_call' = [r_call EXCEPT ![c] = AfterResponse(call, r)]
    /\ UNCHANGED r_clock
    /\ UNCHANGED notRateVars

\* http_client.py:127-128, 138-139 and 113-117: the sleep of the loop is
\* over and the next attempt sends its request
RateRetry ==
    /\ \E c \in Calls, r \in RateResponses :
         LET call == r_call[c] IN
         /\ call.pc = "sleeping"
         /\ r_clock >= call.wake
         /\ r_reqs' = Issue(call.domain)
         /\ r_call' = [r_call EXCEPT ![c] = AfterResponse(call, r)]
    /\ UNCHANGED << r_clock, r_last, r_lock >>
    /\ UNCHANGED notRateVars

\* time.monotonic() moves on by a second
RateTick ==
    /\ r_clock < MaxClock
    /\ r_clock' = r_clock + 1
    /\ UNCHANGED << r_last, r_lock, r_call, r_reqs >>
    /\ UNCHANGED notRateVars

\* http_client.py:25: no request recorded yet: _last_request_time is 0.0,
\* far behind time.monotonic()
InitRate ==
    /\ r_clock = 0
    /\ r_last = [d \in Domains |-> -2]
    /\ r_lock = [d \in Domains |-> 0]
    /\ r_call = [c \in Calls |-> NoCall]
    /\ r_reqs = [d \in Domains |-> << >>]
    \* nothing else is under way
    /\ dpc = "idle"
    /\ via = "search_dish"
    /\ dish_name = "soup"
    /\ use_browser_fallback = TRUE
    /\ website = "None"
    /\ mpc = "idle"
    /\ html = "unset"
    /\ main_text = NoneText
    /\ menu_url = "unset"
    /\ menu_text = NoneText
    /\ text = NoneText
    /\ pdf_left = 0
    /\ path_i = 1
    /\ log = << >>
    /\ parse_result = NoParse
    /\ result = NoResult
    /\ lpc = "idle"
    /\ current_radius = 0
    /\ todo = {}
    /\ checked_ids = {}
    /\ restaurants_with_dish = << >>
    /\ restaurants_checked = << >>
    /\ site_calls = << >>
    /\ locator_calls = << >>
    /\ skipped = {}
    /\ ppc = "idle"
    /\ restaurants = 0
    /\ target_count = 0
    /\ on_found = FALSE
    /\ notified = << >>
    /\ batch_i = 0
    /\ tpc = << >>
    /\ tres = << >>
    /\ max_concurrent = 0
    /\ semaphore = 0
    /\ found_results = << >>
    /\ returned = << >>
    /\ store = << >>
    /\ now = 0
    /\ cache_ops = 0
    /\ shadow = << >>
    /\ cache_ret = << >>
    /\ evicting = << >>
    /\ q_running = FALSE
    /\ queue = {}
    /\ tasks = << >>
    /\ workers = 0
    /\ h_pc = "idle"
    /\ h_max_retries = 0
    /\ h_attempt = 0
    /\ h_log = << >>
    /\ h_ret = "pending"
    /\ b_instance = 0
    /\ b_svc = << >>
    /\ b_launched = 0
    /\ b_open = {}
    /\ b_pages = << >>
    /\ b_call = << >>
    /\ b_close = << >>
    /\ b_failed = FALSE
    /\ t_dish = << >>
    /\ t_text = << >>
    /\ t_norm = << >>
    /\ t_pos = -2
    /\ e_marks = << >>
    /\ e_anchor = 0
    /\ e_ret = << >>
    /\ c_state = "None"
    /\ c_data = "None"
    /\ c_pc = "idle"
    /\ c_outcome = "none"
    /\ c_handled = "none"
    /\ c_quiet = FALSE
    /\ c_updates = 0

NextRate ==
    \/ RateGet
    \/ RateAcquire
    \/ RateWake
    \/ RateRetry
    \/ RateTick

SpecRate == InitRate /\ [][NextRate]_vars

\* ------------------------- BrowserService: render calls and close_browser

\* the concurrent calls of render_js_page
Renders == 1..NumRenders

\* the BrowserService objects that can come to exist: the first one and one
\* after each close_browser
Services == 1..(MaxCloses + 1)

\* browser_service.py:47-52: __init__
NewService == [initialized |-> FALSE, browser |-> 0, init_lock |-> 0]

\* a render call that has not started
NoRender == [pc |-> "idle", svc |-> 0, page |-> FALSE, out |-> "None"]

AlreadyLaunchedNever(svc) == FALSE

\* browser_service.py:70: if self._initialized and self._browser
AlreadyLaunched(svc) == svc.initialized /\ svc.browser # 0

ClosePageSkipped(pages, c) == pages

\* browser_service.py:244-249: finally: if page: await page.close()
ClosePage(pages, c) == [pages EXCEPT ![c] = 0]

\* a call of render_page that ends: its position, its outcome, and the
\* lock of _ensure_browser given back if the call held it
EndRender(c, out) ==
    /\ b_call' = [b_call EXCEPT ![c].pc = "done", ![c].out = out]
    /\ b_svc' = [s \in Services |->
                    IF b_svc[s].init_lock = c
                    THEN [b_svc[s] EXCEPT !.init_lock = 0] ELSE b_svc[s]]

\* browser_service.py:360-363, 54-60, 107-127: render_js_page:
\* get_instance creates the service when _instance is None (no await is
\* taken inside the class lock), and render_page runs up to the cache lookup
RenderStart ==
    \E c \in Renders :
        /\ b_call[c].pc = "idle"
        /\ LET s == IF b_instance = 0 THEN b_close.calls + 1
                    ELSE b_instance
           IN /\ s \in Services
              /\ b_instance' = s
              /\ b_call' = [b_call EXCEPT ![c].pc = "cache", ![c].svc = s]
        /\ UNCHANGED << b_svc, b_launched, b_open, b_pages, b_close, b_failed >>
        /\ UNCHANGED notBrowserVars

\* browser_service.py:127-136: the cached HTML is returned, or the call goes
\* on to _ensure_browser
CacheLookup ==
    \E c \in Renders, hit \in BOOLEAN :
        /\ b_call[c].pc = "cache"
        /\ b_call' = [b_call EXCEPT ![c].pc = IF hit THEN "done" ELSE "ensure",
                                    ![c].out = IF hit THEN "cached" ELSE "None"]
        /\ UNCHANGED << b_instance, b_svc, b_launched, b_open, b_pages,
                        b_close, b_failed >>
        /\ UNCHANGED notBrowserVars

\* browser_service.py:62-72, 138, 147-149: _ensure_browser takes _init_lock;
\* with a browser launched it returns True and render_page asks for a page,
\* otherwise the launch begins inside the lock
EnsureBrowser ==
    \E c \in Renders :
        /\ b_call[c].pc = "ensure"
        /\ LET s == b_call[c].svc
           IN /\ b_svc[s].init_lock = 0
              /\ IF AlreadyLaunched(b_svc[s])
                 THEN /\ b_call' = [b_call EXCEPT ![c].pc = "new_page"]
                      /\ UNCHANGED b_svc
                 ELSE /\ b_call' = [b_call EXCEPT ![c].pc = "launching"]
                      /\ b_svc' = [b_svc EXCEPT ![s].init_lock = c]
        /\ UNCHANGED << b_instance, b_launched, b_open, b_pages, b_close,
                        b_failed >>
        /\ UNCHANGED notBrowserVars

\* browser_service.py:74-105, 138-145: the launch inside the lock: playwright
\* started, browser launched, context created, _initialized set; or the
\* launch raises and render_page answers "Browser not available", with no
\* browser, or with a browser stored whose context could not be created
LaunchDone ==
    \E c \in Renders, launch \in {"ok", "no_browser", "no_context"} :
        /\ b_call[c].pc = "launching"
        /\ LET s == b_call[c].svc
               b == b_launched + 1
           IN IF launch = "no_browser"
              THEN /\ b_svc' = [b_svc EXCEPT ![s].init_lock = 0]
                   /\ UNCHANGED << b_launched, b_open >>
              ELSE /\ b_svc' = [b_svc EXCEPT ![s] =
                                  [initialized |-> launch = "ok",
                                   browser |-> b, init_lock |-> 0]]
                   /\ b_launched' = b
                   /\ b_open' = b_open \cup {b}
        /\ b_call' = [b_call EXCEPT
                        ![c].pc = IF launch = "ok" THEN "new_page" ELSE "done",
                        ![c].out = IF launch = "ok" THEN "None"
                                   ELSE "unavailable"]
        /\ b_failed' = (b_failed \/ launch # "ok")
        /\ UNCHANGED << b_instance, b_pages, b_close >>
        /\ UNCHANGED notBrowserVars

\* browser_service.py:147-149, 235-249: self._context.new_page(): a page
\* opens in the browser of the service; with the context gone (close has run)
\* or on an error of the browser the call raises, page stays None and the
\* failure is returned
NewPage ==
    \E c \in Renders, ok \in BOOLEAN :
        /\ b_call[c].pc = "new_page"
        /\ LET svc == b_svc[b_call[c].svc]
           IN IF ok /\ svc.initialized /\ svc.browser \in b_open
              THEN /\ b_pages' = [b_pages EXCEPT ![c] = svc.browser]
                   /\ b_call' = [b_call EXCEPT ![c].pc = "rendering",
                                               ![c].page = TRUE]
              ELSE /\ b_call' = [b_call EXCEPT ![c].pc = "done",
                                               ![c].out = "error"]
                   /\ UNCHANGED b_pages
        /\ UNCHANGED << b_instance, b_svc, b_launched, b_open, b_close,
                        b_failed >>
        /\ UNCHANGED notBrowserVars

\* browser_service.py:151-249: navigation, waits and content: the call
\* returns the page, or a failure (no response, timeout of the navigation,
\* any error), and the finally clause closes the page
RenderEnd ==
    \E c \in Renders, out \in {"success", "error", "timeout"} :
        /\ b_call[c].pc = "rendering"
        /\ b_call' = [b_call EXCEPT ![c].pc = "done", ![c].out = out]
        /\ b_pages' = ClosePage(b_pages, c)
        /\ UNCHANGED << b_instance, b_svc, b_launched, b_open, b_close,
                        b_failed >>
        /\ UNCHANGED notBrowserVars

\* menu_parser_v2.py:118-125: the timeout of wait_for cancels the call at
\* the await it is suspended in; browser_service.py:68, 244-249: the lock of
\* _ensure_browser is given back and the finally clause closes the page the
\* call holds
RenderCancel ==
    \E c \in Renders :
        /\ b_call[c].pc \in {"cache", "ensure", "launching", "new_page",
                             "rendering"}
        /\ EndRender(c, "cancelled")
        /\ b_pages' = IF b_call[c].page THEN ClosePage(b_pages, c) ELSE b_pages
        /\ b_failed' = (b_failed \/ b_call[c].pc = "launching")
        /\ UNCHANGED << b_instance, b_launched, b_open, b_close >>
        /\ UNCHANGED notBrowserVars

\* browser_service.py:349-356, 370: the finally clause of close, and
\* BrowserService._instance = None in close_browser
CloseReturns(s) ==
    /\ b_svc' = [b_svc EXCEPT ![s].initialized = FALSE, ![s].browser = 0]
    /\ b_instance' = 0

\* browser_service.py:366-370, 341-344: close_browser: nothing to do without
\* an instance; otherwise close runs, without taking a lock, up to its first
\* await: the context is closed, and its pages with it. A service that
\* never started a launch has nothing to await and close returns at once
CloseStart ==
    /\ b_close.pc = "idle"
    /\ b_close.calls < MaxCloses
    /\ IF b_instance = 0
       THEN /\ b_close' = [b_close EXCEPT !.calls = @ + 1]
            /\ UNCHANGED << b_instance, b_svc, b_pages >>
       ELSE LET s == b_instance
                svc == b_svc[s]
            IN IF svc.browser = 0 /\ svc.init_lock = 0
               THEN /\ CloseReturns(s)
                    /\ b_close' = [b_close EXCEPT !.calls = @ + 1]
                    /\ UNCHANGED b_pages
               ELSE /\ b_close' = [b_close EXCEPT !.pc = "closing", !.svc = s]
                    /\ b_pages' = [c \in Renders |->
                                     IF svc.initialized
                                        /\ b_pages[c] = svc.browser
                                     THEN 0 ELSE b_pages[c]]
                    /\ UNCHANGED << b_instance, b_svc >>
    /\ UNCHANGED << b_launched, b_open, b_call, b_failed >>
    /\ UNCHANGED notBrowserVars

\* browser_service.py:345-356, 370: the rest of close: the browser the
\* service holds by now is closed, playwright stopped, the fields reset,
\* and close_browser forgets the instance
CloseFinish ==
    /\ b_close.pc = "closing"
    /\ LET s == b_close.svc
       IN /\ b_open' = b_open \ {b_svc[s].browser}
          /\ b_pages' = [c \in Renders |->
                           IF b_pages[c] = b_svc[s].browser THEN 0
                           ELSE b_pages[c]]
          /\ CloseReturns(s)
    /\ b_close' = [b_close EXCEPT !.pc = "idle", !.svc = 0, !.calls = @ + 1]
    /\ UNCHANGED << b_launched, b_call, b_failed >>
    /\ UNCHANGED notBrowserVars

InitBrowser ==
    /\ b_instance = 0
    /\ b_svc = [s \in Services |-> NewService]
    /\ b_launched = 0
    /\ b_open = {}
    /\ b_pages = [c \in Renders |-> 0]
    /\ b_call = [c \in Renders |-> NoRender]
    /\ b_close = [pc |-> "idle", svc |-> 0, calls |-> 0]
    /\ b_failed = FALSE
    /\ dpc = "idle"
    /\ via = "search_dish"
    /\ dish_name = "soup"
    /\ use_browser_fallback = TRUE
    /\ website = "None"
    /\ mpc = "idle"
    /\ html = "unset"
    /\ main_text = NoneText
    /\ menu_url = "unset"
    /\ menu_text = NoneText
    /\ text = NoneText
    /\ pdf_left = 0
    /\ path_i = 1
    /\ log = << >>
    /\ parse_result = NoParse
    /\ result = NoResult
    /\ lpc = "idle"
    /\ current_radius = 0
    /\ todo = {}
    /\ checked_ids = {}
    /\ restaurants_with_dish = << >>
    /\ restaurants_checked = << >>
    /\ site_calls = << >>
    /\ locator_calls = << >>
    /\ skipped = {}
    /\ ppc = "idle"
    /\ restaurants = 0
    /\ target_count = 0
    /\ on_found = FALSE
    /\ notified = << >>
    /\ batch_i = 0
    /\ tpc = << >>
    /\ tres = << >>
    /\ max_concurrent = 0
    /\ semaphore = 0
    /\ found_results = << >>
    /\ returned = << >>
    /\ store = << >>
    /\ now = 0
    /\ cache_ops = 0
    /\ shadow = << >>
    /\ cache_ret = << >>
    /\ evicting = << >>
    /\ q_running = FALSE
    /\ queue = {}
    /\ tasks = << >>
    /\ workers = 0
    /\ h_pc = "idle"
    /\ h_max_retries = 0
    /\ h_attempt = 0
    /\ h_log = << >>
    /\ h_ret = "pending"
    /\ r_clock = 0
    /\ r_last = << >>
    /\ r_lock = << >>
    /\ r_call = << >>
    /\ r_reqs = << >>
    /\ t_dish = << >>
    /\ t_text = << >>
    /\ t_norm = << >>
    /\ t_pos = -2
    /\ e_marks = << >>
    /\ e_anchor = 0
    /\ e_ret = << >>
    /\ c_state = "None"
    /\ c_data = "None"
    /\ c_pc = "idle"
    /\ c_outcome = "none"
    /\ c_handled = "none"
    /\ c_quiet = FALSE
    /\ c_updates = 0

NextBrowser ==
    \/ RenderStart
    \/ CacheLookup
    \/ EnsureBrowser
    \/ LaunchDone
    \/ NewPage
    \/ RenderEnd
    \/ RenderCancel
    \/ CloseStart
    \/ CloseFinish

SpecBrowser == InitBrowser /\ [][NextBrowser]_vars

\* ------------------- text_utils: normalize_for_search, find_dish_in_text

\* the characters of the strings modelled: two lower-case letters, an
\* upper-case letter, the space, a punctuation mark. NFKC
\* (text_utils.py:20) leaves each of them as it is
Alphabet == {"a", "b", "A", " ", ","}

\* the strings of at most n characters
Strings(n) == UNION {[1..k -> Alphabet] : k \in 0..n}

\* text_utils.py:23: str.lower, by character
Lower(ch) == IF ch = "A" THEN "a" ELSE ch

\* text_utils.py:43: [^\w\s] removes what is neither a word character nor
\* whitespace
KeptForSearch(ch) == ch \in {"a", "b", "A", " "}

\* text_utils.py:26: re.sub(r"\s+", " ", text)
RECURSIVE Collapse(_)
Collapse(s) ==
    IF Len(s) < 2 THEN s
    ELSE IF s[1] = " " /\ s[2] = " " THEN Collapse(Tail(s))
    ELSE << s[1] >> \o Collapse(Tail(s))

\* text_utils.py:29: str.strip
Strip(s) ==
    LET inner == {i \in 1..Len(s) : s[i] # " "}
    IN IF inner = {} THEN << >>
       ELSE SubSeq(s, CHOOSE i \in inner : \A j \in inner : i <= j,
                      CHOOSE i \in inner : \A j \in inner : i >= j)

\* text_utils.py:9-31
normalize_text(txt) ==
    IF txt = << >> THEN << >>
    ELSE Strip(Collapse([i \in 1..Len(txt) |-> Lower(txt[i])]))

\* text_utils.py:34-45
normalize_for_search(txt) == SelectSeq(normalize_text(txt), KeptForSearch)

\* find_dish_in_text has returned None
NotFound == -1

\* str.find(needle, start): the offset, from 0, of the first occurrence at
\* or after start, or -1
FindFrom(needle, hay, start) ==
    LET hits == {p \in start..(Len(hay) - Len(needle)) :
                    SubSeq(hay, p + 1, p + Len(needle)) = needle}
    IN IF hits = {} THEN -1 ELSE CHOOSE p \in hits : \A q \in hits : p <= q

\* str.split(): the words between runs of whitespace
RECURSIVE Words(_)
Words(s) ==
    IF s = << >> THEN << >>
    ELSE IF s[1] = " " THEN Words(Tail(s))
    ELSE LET n == FindFrom(<< " " >>, s, 0)
         IN IF n < 0 THEN << s >>
            ELSE << SubSeq(s, 1, n) >> \o Words(SubSeq(s, n + 1, Len(s)))

\* text_utils.py:220: the words of more than two characters
Significant(w) == Len(w) > 2

\* text_utils.py:222-233: strategy 2: the first occurrence of the first word,
\* among those re.finditer yields (they do not overlap), whose region, from
\* 20 characters before to 100 after, holds every word
RECURSIVE AllWordsNearby(_, _, _)
AllWordsNearby(dish_words, txt, start) ==
    LET pos == FindFrom(dish_words[1], txt, start)
        region == SubSeq(txt, IF pos > 20 THEN pos - 20 + 1 ELSE 1,
                               IF Len(txt) < pos + 100 THEN Len(txt)
                               ELSE pos + 100)
    IN IF pos < 0 THEN NotFound
       ELSE IF \A k \in 1..Len(dish_words) :
                   FindFrom(dish_words[k], region, 0) >= 0
       THEN pos
       ELSE AllWordsNearby(dish_words, txt, pos + Len(dish_words[1]))

\* text_utils.py:235-241: strategy 3: the longest word, the first of them,
\* when it has four characters or more
MainWord(dish_words, txt) ==
    LET k == CHOOSE k \in 1..Len(dish_words) :
                /\ \A j \in 1..Len(dish_words) :
                      Len(dish_words[j]) <= Len(dish_words[k])
                /\ \A j \in 1..(k - 1) :
                      Len(dish_words[j]) < Len(dish_words[k])
    IN IF Len(dish_words[k]) >= 4 THEN FindFrom(dish_words[k], txt, 0)
       ELSE NotFound

\* text_utils.py:195-251. Strategy 4 (243-249) looks for the variants of
\* _get_dish_variants (254-307): each of them holds a letter outside
\* Alphabet, so none is found in a text over Alphabet
find_dish_in_text(dish, txt) ==
    LET dish_normalized == normalize_for_search(dish)
        text_normalized == normalize_for_search(txt)
        pos == FindFrom(dish_normalized, text_normalized, 0)
        dish_words == SelectSeq(Words(dish_normalized), Significant)
    IN IF dish_normalized = << >> \/ text_normalized = << >> THEN NotFound
       ELSE IF pos >= 0 THEN pos
       ELSE IF dish_words = << >> THEN NotFound
       ELSE IF AllWordsNearby(dish_words, text_normalized, 0) >= 0
       THEN AllWordsNearby(dish_words, text_normalized, 0)
       ELSE MainWord(dish_words, text_normalized)

\* find_dish_in_text has not been called
NotRun == -2

\* normalize_for_search is applied to the text, then to its own result
Normalize ==
    /\ Len(t_norm) <= 2
    /\ t_norm' = Append(t_norm, normalize_for_search(t_norm[Len(t_norm)]))
    /\ UNCHANGED << t_dish, t_text, t_pos >>
    /\ UNCHANGED notTextVars

\* find_dish_in_text(dish_name, text) is called
FindDish ==
    /\ t_pos = NotRun
    /\ t_pos' = find_dish_in_text(t_dish, t_text)
    /\ UNCHANGED << t_dish, t_text, t_norm >>
    /\ UNCHANGED notTextVars

InitText ==
    /\ t_dish \in Strings(MaxDishLen)
    /\ t_text \in Strings(MaxTextLen)
    /\ t_norm = << t_text >>
    /\ t_pos = NotRun
    /\ dpc = "idle"
    /\ via = "search_dish"
    /\ dish_name = "soup"
    /\ use_browser_fallback = TRUE
    /\ website = "None"
    /\ mpc = "idle"
    /\ html = "unset"
    /\ main_text = NoneText
    /\ menu_url = "unset"
    /\ menu_text = NoneText
    /\ text = NoneText
    /\ pdf_left = 0
    /\ path_i = 1
    /\ log = << >>
    /\ parse_result = NoParse
    /\ result = NoResult
    /\ lpc = "idle"
    /\ current_radius = 0
    /\ todo = {}
    /\ checked_ids = {}
    /\ restaurants_with_dish = << >>
    /\ restaurants_checked = << >>
    /\ site_calls = << >>
    /\ locator_calls = << >>
    /\ skipped = {}
    /\ ppc = "idle"
    /\ restaurants = 0
    /\ target_count = 0
    /\ on_found = FALSE
    /\ notified = << >>
    /\ batch_i = 0
    /\ tpc = << >>
    /\ tres = << >>
    /\ max_concurrent = 0
    /\ semaphore = 0
    /\ found_results = << >>
    /\ returned = << >>
    /\ store = << >>
    /\ now = 0
    /\ cache_ops = 0
    /\ shadow = << >>
    /\ cache_ret = << >>
    /\ evicting = << >>
    /\ q_running = FALSE
    /\ queue = {}
    /\ tasks = << >>
    /\ workers = 0
    /\ h_pc = "idle"
    /\ h_max_retries = 0
    /\ h_attempt = 0
    /\ h_log = << >>
    /\ h_ret = "pending"
    /\ r_clock = 0
    /\ r_last = << >>
    /\ r_lock = << >>
    /\ r_call = << >>
    /\ r_reqs = << >>
    /\ b_instance = 0
    /\ b_svc = << >>
    /\ b_launched = 0
    /\ b_open = {}
    /\ b_pages = << >>
    /\ b_call = << >>
    /\ b_close = << >>
    /\ b_failed = FALSE
    /\ e_marks = << >>
    /\ e_anchor = 0
    /\ e_ret = << >>
    /\ c_state = "None"
    /\ c_data = "None"
    /\ c_pc = "idle"
    /\ c_outcome = "none"
    /\ c_handled = "none"
    /\ c_quiet = FALSE
    /\ c_updates = 0

NextText ==
    \/ Normalize
    \/ FindDish

SpecText == InitText /\ [][NextText]_vars

\* ------------------------------------------- text_utils.extract_price

\* text_utils.py:68: start = max(0, dish_position - 30)
Lookback == 30

\* text_utils.py:51: context_chars: int = 150
context_chars == 150

\* the offsets of the text at which a price pattern can match: some within
\* the first 30 characters, some after them, some farther than the window
\* reaches
Offsets == {0, 10, 30, 40} \cup {160 + 10 * k : k \in 1..MaxFar}

\* len(text): the text ends after its last match
TextLen == 160 + 10 * MaxFar + 10

\* the numbers the patterns capture (text_utils.py:75-94), at the two
\* limits of the range and next to them; 0 stands for no match at an offset
Prices == {0, 49, 50, 50000, 50001}

InRangeAny(price) == TRUE

\* text_utils.py:105: if 50 <= price <= 50000
InRange(price) == 50 <= price /\ price <= 50000

\* text_utils.py:68-69: the window, as offsets of the text
WindowStart(dish_position) ==
    IF dish_position - Lookback > 0 THEN dish_position - Lookback ELSE 0

WindowEnd(dish_position) ==
    IF TextLen < dish_position + context_chars THEN TextLen
    ELSE dish_position + context_chars

\* text_utils.py:107-112: match.start() is an offset of the window
Distance(match_pos) ==
    IF match_pos >= Lookback THEN match_pos - Lookback
    ELSE 1000 + (Lookback - match_pos)

\* extract_price returned (None, None)
NoPrice == [price |-> 0, at |-> -1]

\* text_utils.py:51-122: the matches of the window that are in range are
\* the candidates; the one of the smallest distance is returned, with the
\* text matched, which the offset of the match stands for
extract_price(marks, dish_position) ==
    LET start == WindowStart(dish_position)
        candidates == {p \in Offsets :
                          /\ start <= p /\ p < WindowEnd(dish_position)
                          /\ marks[p] # 0 /\ InRange(marks[p])}
    IN IF candidates = {} THEN NoPrice
       ELSE LET p == CHOOSE p \in candidates : \A q \in candidates :
                        Distance(p - start) <= Distance(q - start)
            IN [price |-> marks[p], at |-> p]

\* extract_price has not been called
PriceNotRun == [price |-> 0, at |-> -2]

ExtractPrice ==
    /\ e_ret = PriceNotRun
    /\ e_ret' = extract_price(e_marks, e_anchor)
    /\ UNCHANGED << e_marks, e_anchor >>
    /\ UNCHANGED notPriceVars

InitPrice ==
    /\ e_marks \in [Offsets -> Prices]
    /\ e_anchor \in Offsets
    /\ e_ret = PriceNotRun
    /\ dpc = "idle"
    /\ via = "search_dish"
    /\ dish_name = "soup"
    /\ use_browser_fallback = TRUE
    /\ website = "None"
    /\ mpc = "idle"
    /\ html = "unset"
    /\ main_text = NoneText
    /\ menu_url = "unset"
    /\ menu_text = NoneText
    /\ text = NoneText
    /\ pdf_left = 0
    /\ path_i = 1
    /\ log = << >>
    /\ parse_result = NoParse
    /\ result = NoResult
    /\ lpc = "idle"
    /\ current_radius = 0
    /\ todo = {}
    /\ checked_ids = {}
    /\ restaurants_with_dish = << >>
    /\ restaurants_checked = << >>
    /\ site_calls = << >>
    /\ locator_calls = << >>
    /\ skipped = {}
    /\ ppc = "idle"
    /\ restaurants = 0
    /\ target_count = 0
    /\ on_found = FALSE
    /\ notified = << >>
    /\ batch_i = 0
    /\ tpc = << >>
    /\ tres = << >>
    /\ max_concurrent = 0
    /\ semaphore = 0
    /\ found_results = << >>
    /\ returned = << >>
    /\ store = << >>
    /\ now = 0
    /\ cache_ops = 0
    /\ shadow = << >>
    /\ cache_ret = << >>
    /\ evicting = << >>
    /\ q_running = FALSE
    /\ queue = {}
    /\ tasks = << >>
    /\ workers = 0
    /\ h_pc = "idle"
    /\ h_max_retries = 0
    /\ h_attempt = 0
    /\ h_log = << >>
    /\ h_ret = "pending"
    /\ r_clock = 0
    /\ r_last = << >>
    /\ r_lock = << >>
    /\ r_call = << >>
    /\ r_reqs = << >>
    /\ b_instance = 0
    /\ b_svc = << >>
    /\ b_launched = 0
    /\ b_open = {}
    /\ b_pages = << >>
    /\ b_call = << >>
    /\ b_close = << >>
    /\ b_failed = FALSE
    /\ t_dish = << >>
    /\ t_text = << >>
    /\ t_norm = << >>
    /\ t_pos = -2
    /\ c_state = "None"
    /\ c_data = "None"
    /\ c_pc = "idle"
    /\ c_outcome = "none"
    /\ c_handled = "none"
    /\ c_quiet = FALSE
    /\ c_updates = 0

NextPrice ==
    \/ ExtractPrice

SpecPrice == InitPrice /\ [][NextPrice]_vars

\* ------------------------------------------------- bot/handlers.py, the flow

\* SearchState, with "None" for the cleared state
SearchState == {"waiting_for_dish", "waiting_for_location", "processing"}

\* What a user sends: the commands, the two buttons, a text of fewer than two
\* characters, a text of more than a hundred, any other text, and the press
\* of the inline button new_search.
Updates == {"/start", "/help", "/cancel", "find", "short", "long", "text", "new_search"}

\* The router tries its handlers in the order of their registration; the two
\* state handlers come after the commands and the buttons.
Route(update, state) ==
    IF update = "/start" THEN "cmd_start"
    ELSE IF update = "/help" THEN "cmd_help"
    ELSE IF update = "/cancel" THEN "cmd_cancel"
    ELSE IF update = "find" THEN "start_search"
    ELSE IF update = "new_search" THEN "callback_new_search"
    ELSE IF state = "waiting_for_dish" THEN "process_dish_name"
    ELSE IF state = "waiting_for_location" THEN "process_location"
    ELSE "debug_catch_all"

\* an update is routed: updates are handled as tasks, so a handler may run
\* while process_location is suspended
Routed(update, handler) ==
    /\ c_updates < MaxUpdates
    /\ Route(update, c_state) = handler
    /\ c_updates' = c_updates + 1
    /\ c_handled' = handler

\* a handler other than process_location ran
Other == c_quiet' = FALSE /\ UNCHANGED << c_pc, c_outcome >>

CmdStart ==
    /\ Routed("/start", "cmd_start")
    /\ c_data' = "None"
    /\ c_state' = "waiting_for_dish"
    /\ Other
    /\ UNCHANGED notConvVars

CmdHelp ==
    /\ Routed("/help", "cmd_help")
    /\ Other
    /\ UNCHANGED << c_state, c_data >>
    /\ UNCHANGED notConvVars

CmdCancel ==
    /\ Routed("/cancel", "cmd_cancel")
    /\ IF c_state = "None"
       THEN UNCHANGED << c_state, c_data >>
       ELSE c_state' = "None" /\ c_data' = "None"
    /\ Other
    /\ UNCHANGED notConvVars

StartSearch ==
    /\ Routed("find", "start_search")
    /\ c_state' = "waiting_for_dish"
    /\ Other
    /\ UNCHANGED c_data
    /\ UNCHANGED notConvVars

ProcessDishName ==
    /\ \E update \in {"short", "long", "text"} :
         /\ Routed(update, "process_dish_name")
         /\ IF update = "text"
            THEN c_data' = "dish" /\ c_state' = "waiting_for_location"
            ELSE UNCHANGED << c_state, c_data >>
    /\ Other
    /\ UNCHANGED notConvVars

CallbackNewSearch ==
    /\ Routed("new_search", "callback_new_search")
    /\ c_data' = "None"
    /\ c_state' = "waiting_for_dish"
    /\ Other
    /\ UNCHANGED notConvVars

\* a text while the state is cleared or processing: the catch-all handler,
\* registered last, answers it and leaves the state alone
DebugCatchAll ==
    /\ \E update \in {"short", "long", "text"} : Routed(update, "debug_catch_all")
    /\ Other
    /\ UNCHANGED << c_state, c_data >>
    /\ UNCHANGED notConvVars

\* process_location up to its first await inside the try. One call is followed
\* at a time.
ProcessLocation ==
    /\ c_pc = "idle"
    /\ \E update \in {"short", "long", "text"} :
         /\ Routed(update, "process_location")
         /\ IF update = "short"
            THEN /\ c_outcome' = "short"
                 /\ UNCHANGED << c_state, c_pc >>
            ELSE /\ c_outcome' = "none"
                 /\ c_state' = "processing"
                 /\ c_pc' = "geocode"
    /\ c_quiet' = TRUE
    /\ UNCHANGED c_data
    /\ UNCHANGED notConvVars

\* geo_service.geocode answers: no coordinates, coordinates, or it raises
GeocodeDone ==
    /\ c_pc = "geocode"
    /\ \E coords \in {"None", "coords", "raises"} :
         CASE coords = "None" ->
                /\ c_state' = "waiting_for_location"
                /\ c_outcome' = "geocode_failed"
                /\ c_pc' = "finally"
           [] coords = "coords" ->
                /\ c_pc' = "search"
                /\ UNCHANGED << c_state, c_outcome >>
           [] coords = "raises" ->
                /\ c_pc' = "except"
                /\ UNCHANGED << c_state, c_outcome >>
    /\ UNCHANGED << c_data, c_handled, c_quiet, c_updates >>
    /\ UNCHANGED notConvVars

\* the search over the radii and the answer with what it found, or an
\* exception out of them
SearchDone ==
    /\ c_pc = "search"
    /\ \E outcome \in {"results", "no_results", "raises"} :
         IF outcome = "raises"
         THEN c_pc' = "except" /\ UNCHANGED c_outcome
         ELSE c_pc' = "finally" /\ c_outcome' = outcome
    /\ UNCHANGED << c_state, c_data, c_handled, c_quiet, c_updates >>
    /\ UNCHANGED notConvVars

Except ==
    /\ c_pc = "except"
    /\ c_outcome' = "exception"
    /\ c_pc' = "finally"
    /\ UNCHANGED << c_state, c_data, c_handled, c_quiet, c_updates >>
    /\ UNCHANGED notConvVars

\* the finally clause runs on every way out of the try, the return of the
\* branch without coordinates included
Finally ==
    /\ c_pc = "finally"
    /\ c_state' = "None"
    /\ c_data' = "None"
    /\ c_pc' = "answer"
    /\ UNCHANGED << c_outcome, c_handled, c_quiet, c_updates >>
    /\ UNCHANGED notConvVars

\* the last answer is sent and process_location returns
Return ==
    /\ c_pc = "answer"
    /\ c_pc' = "idle"
    /\ UNCHANGED << c_state, c_data, c_outcome, c_handled, c_quiet, c_updates >>
    /\ UNCHANGED notConvVars

InitConv ==
    /\ c_state = "None"
    /\ c_data = "None"
    /\ c_pc = "idle"
    /\ c_outcome = "none"
    /\ c_handled = "none"
    /\ c_quiet = FALSE
    /\ c_updates = 0
    /\ dpc = "idle"
    /\ via = "search_dish"
    /\ dish_name = "soup"
    /\ use_browser_fallback = TRUE
    /\ website = "None"
    /\ mpc = "idle"
    /\ html = "unset"
    /\ main_text = NoneText
    /\ menu_url = "unset"
    /\ menu_text = NoneText
    /\ text = NoneText
    /\ pdf_left = 0
    /\ path_i = 1
    /\ log = << >>
    /\ parse_result = NoParse
    /\ result = NoResult
    /\ lpc = "idle"
    /\ current_radius = 0
    /\ todo = {}
    /\ checked_ids = {}
    /\ restaurants_with_dish = << >>
    /\ restaurants_checked = << >>
    /\ site_calls = << >>
    /\ locator_calls = << >>
    /\ skipped = {}
    /\ ppc = "idle"
    /\ restaurants = 0
    /\ target_count = 0
    /\ on_found = FALSE
    /\ notified = << >>
    /\ batch_i = 0
    /\ tpc = << >>
    /\ tres = << >>
    /\ max_concurrent = 0
    /\ semaphore = 0
    /\ found_results = << >>
    /\ returned = << >>
    /\ store = << >>
    /\ now = 0
    /\ cache_ops = 0
    /\ shadow = << >>
    /\ cache_ret = << >>
    /\ evicting = << >>
    /\ q_running = FALSE
    /\ queue = {}
    /\ tasks = << >>
    /\ workers = 0
    /\ h_pc = "idle"
    /\ h_max_retries = 0
    /\ h_attempt = 0
    /\ h_log = << >>
    /\ h_ret = "pending"
    /\ r_clock = 0
    /\ r_last = << >>
    /\ r_lock = << >>
    /\ r_call = << >>
    /\ r_reqs = << >>
    /\ b_instance = 0
    /\ b_svc = << >>
    /\ b_launched = 0
    /\ b_open = {}
    /\ b_pages = << >>
    /\ b_call = << >>
    /\ b_close = << >>
    /\ b_failed = FALSE
    /\ t_dish = << >>
    /\ t_text = << >>
    /\ t_norm = << >>
    /\ t_pos = -2
    /\ e_marks = << >>
    /\ e_anchor = 0
    /\ e_ret = << >>

NextConv ==
    \/ CmdStart
    \/ CmdHelp
    \/ CmdCancel
    \/ StartSearch
    \/ ProcessDishName
    \/ CallbackNewSearch
    \/ DebugCatchAll
    \/ ProcessLocation
    \/ GeocodeDone
    \/ SearchDone
    \/ Except
    \/ Finally
    \/ Return

SpecConv == InitConv /\ [][NextConv]_vars

\* ------------------------------------------------------------- claims

Rendered == \E i \in 1..Len(log) : log[i].op = "render"

FirstRender == CHOOSE i \in 1..Len(log) :
                  /\ log[i].op = "render"
                  /\ \A j \in 1..(i - 1) : log[j].op # "render"

\* the call was made before position r of the log
CalledBefore(op, url, r) ==
    \E i \in 1..(r - 1) : log[i].op = op /\ log[i].url = url

\* the locator ended with a failure of its own, not by the timeout or by an
\* exception of the cache
LocatorGaveUp ==
    /\ mpc = "done"
    /\ ~parse_result.success
    /\ parse_result.error \notin {"Timeout", CacheErr}

\* C3: the status search_dish returns is fixed by the pipeline outcome: no
\* website gives SITE_NOT_FOUND without a call of the locator, a locator
\* failure gives MENU_UNAVAILABLE (DishMatcherV2: with the locator's reason), a
\* menu without the dish gives MENU_UNAVAILABLE, the dish with a price FOUND,
\* the dish without a price FOUND_NO_PRICE; an item is attached exactly in the
\* last two cases.
C3_StatusFixedByOutcome ==
    (dpc = "done" /\ via \in {"search_dish", "v1"}) =>
        /\ website = "None" =>
              /\ result.status = "SITE_NOT_FOUND"
              /\ mpc = "idle"
              /\ log = << >>
        /\ (website # "None" /\ ~parse_result.success) =>
              /\ result.status = "MENU_UNAVAILABLE"
              /\ via = "search_dish" => result.error_message = parse_result.error
        /\ (website # "None" /\ parse_result.success /\ ~parse_result.dish_found) =>
              result.status = "MENU_UNAVAILABLE"
        /\ (website # "None" /\ parse_result.dish_found /\ parse_result.price) =>
              result.status = "FOUND"
        /\ (website # "None" /\ parse_result.dish_found /\ ~parse_result.price) =>
              result.status = "FOUND_NO_PRICE"
        /\ result.menu_item <=> result.status \in {"FOUND", "FOUND_NO_PRICE"}

\* C3 witness: DishMatcherV2.search_dish returned a dish found without a price
C3_Witness ==
    /\ dpc = "done"
    /\ via = "search_dish"
    /\ parse_result.dish_found
    /\ ~parse_result.price
    /\ result.status = "FOUND_NO_PRICE"

\* C5: find_and_parse_menu never raises past its boundary: whatever fails
\* (static fetch, PDF extractor, browser renderer, cache, timeout) it returns a
\* result, and a result with success=false carries an error message that is
\* present and not empty.
C5_NeverRaises ==
    mpc = "done" =>
        /\ ~parse_result.raised
        /\ ~parse_result.success => parse_result.error \notin {"None", ""}

\* C5 witness: the cache raised and the locator returned a failure with the
\* message of the exception
C5_Witness ==
    /\ mpc = "done"
    /\ ~parse_result.success
    /\ parse_result.error = CacheErr

\* C6: when the locator exceeds its timeout, the place is given a status of
\* its own, never the status of a place whose menu was read and did not hold
\* the dish (MENU_UNAVAILABLE).
C6_TimeoutHasOwnStatus ==
    (dpc = "done" /\ via = "search_dish" /\ parse_result.error = "Timeout") =>
        result.status # "MENU_UNAVAILABLE"

RootOnlyCall(c) ==
    \/ c.op \in {"cache_get", "cache_set"} /\ c.url = website
    \/ c.op = "http_get" /\ c.url = website
    \/ c.op = "pdf_extract" /\ c.url = "pdf"

\* C9 as stated: when the root page holds at least 3 menu indicators the
\* locator returns the root as the menu URL and fetches no other URL.
C9_RootIsMenuFetchesNothingElse ==
    (html = "ok" /\ main_text.ind >= MenuIndicatorThreshold) =>
        /\ \A i \in 1..Len(log) : RootOnlyCall(log[i]) /\ log[i].op # "pdf_extract"
        /\ (mpc = "done" /\ parse_result.success) => parse_result.menu_url = website

\* C9 amended: when the root page holds at least 3 menu indicators the locator
\* follows no link, requests no common path and does not start the browser:
\* besides the root it fetches only PDF links of the root; it returns the PDF
\* that parsed as the menu URL when one does, otherwise the root itself, and
\* fails only by the timeout or an exception of the cache.
C9_RootIsMenuFetchesOnlyRootPdfs ==
    (html = "ok" /\ main_text.ind >= MenuIndicatorThreshold) =>
        /\ \A i \in 1..Len(log) : RootOnlyCall(log[i])
        /\ mpc \in {"pdf_root", "done"}
        /\ mpc = "done" =>
              IF parse_result.success
              THEN \/ parse_result.menu_url = website /\ parse_result.menu_text = main_text
                   \/ parse_result.menu_url = "pdf"
                         /\ parse_result.source \in {"pdf_text", "pdf_ocr"}
              ELSE parse_result.error \in {"Timeout", CacheErr}

\* C9 witness: a root with 3 menu indicators and a PDF link that did not
\* parse was returned as the menu
C9_Witness ==
    /\ mpc = "done"
    /\ website = "root"
    /\ main_text.ind >= MenuIndicatorThreshold
    /\ parse_result.success
    /\ parse_result.menu_url = website
    /\ \E i \in 1..Len(log) : log[i].op = "pdf_extract"

LocFoundWithinTarget == Len(restaurants_with_dish) <= TARGET_COUNT

\* C2: within one search the site finder and the menu locator are invoked at
\* most once for every place identifier, however many radius steps return
\* the place
C2_OncePerPlace ==
    lpc # "idle" =>
      \A p \in Places : site_calls[p] <= 1 /\ locator_calls[p] <= 1

\* a place processed at an earlier radius came back at a later one and was
\* passed over
C2_Witness ==
    /\ lpc = "done"
    /\ \E p \in skipped : site_calls[p] = 1 /\ locator_calls[p] = 1

\* C1: the found list of a search never holds more than target_count
\* results, in search_dish_progressive as in the progressive-radius loop
C1_FoundNeverExceedsTarget ==
    /\ ppc \in {"progressive", "returned"} =>
         Len(found_results) <= target_count
    /\ LocFoundWithinTarget

\* C4: no result handed back by search_dish_batch or search_dish_progressive,
\* nor given to on_found, has the status PENDING; each has one of the four
\* final statuses, also where search_dish raised inside the batch
C4_NoPendingReturned ==
    /\ \A i \in 1..Len(returned) :
         returned[i].status \in {"FOUND", "FOUND_NO_PRICE", "MENU_UNAVAILABLE",
                                 "SITE_NOT_FOUND"}
    /\ \A i \in 1..Len(found_results) :
         found_results[i].status \in {"FOUND", "FOUND_NO_PRICE"}

\* a batch search handed back its results, one of them for a restaurant
\* whose search_dish raised
C4_Witness ==
    /\ ppc = "returned"
    /\ \E i \in 1..Len(returned) :
         /\ returned[i].error_message = SearchErr
         /\ returned[i].status = "MENU_UNAVAILABLE"
    /\ \E i \in 1..Len(returned) : returned[i].status = "SITE_NOT_FOUND"

\* C11: when the cache gives a menu text of at least MIN_CONTENT_LENGTH for
\* the website, the locator answers from that text (source static_html, the
\* website as menu URL) and makes no HTTP request, no PDF extraction, no
\* browser render and no write to the cache
C11_CacheHitAnswersFromCache ==
    (Len(log) >= 1 /\ log[1].op = "cache_get"
                   /\ log[1].len >= MIN_CONTENT_LENGTH) =>
        /\ Len(log) = 1
        /\ mpc = "done"
        /\ parse_result.success
        /\ parse_result.source = "static_html"
        /\ parse_result.menu_url = website
        /\ parse_result.menu_text.len = log[1].len

\* C11 witness: the cache gave a text of sufficient length and the locator
\* returned it
C11_Witness ==
    /\ mpc = "done"
    /\ log = << Call("cache_get", website, MIN_CONTENT_LENGTH) >>
    /\ parse_result.success
    /\ parse_result.menu_text.len = MIN_CONTENT_LENGTH

\* the last get began after the last set through its accessor and URL, with
\* no delete in between, and the expiry time of the text had not passed
ShadowLive ==
    LET s == shadow[<< cache_ret.kind, cache_ret.url >>] IN
    /\ s.written
    /\ cache_ret.seq > s.seq
    /\ cache_ret.at <= s.at + Ttl(cache_ret.kind)

\* C12: a get after the expiry time of the stored entry returns none and
\* removes the entry; no get returns a value whose expiry time has passed,
\* whether or not a cleanup has run
C12_ExpiredIsMiss ==
    cache_ret.op = "get" =>
        LET s == shadow[<< cache_ret.kind, cache_ret.url >>]
            k == MakeKey(Prefix(cache_ret.kind), cache_ret.url) IN
        /\ (s.written /\ cache_ret.seq > s.seq
                      /\ cache_ret.at > s.at + Ttl(cache_ret.kind)) =>
              cache_ret.none /\ ~store[k].present
        /\ ~cache_ret.none => ShadowLive

\* C12 witness: a text was set, its expiry time passed, and a get returned
\* none and removed the row
C12_Witness ==
    /\ cache_ret.op = "get"
    /\ cache_ret.none
    /\ shadow[<< cache_ret.kind, cache_ret.url >>].written
    /\ cache_ret.seq > shadow[<< cache_ret.kind, cache_ret.url >>].seq
    /\ cache_ret.at > shadow[<< cache_ret.kind, cache_ret.url >>].at
                        + Ttl(cache_ret.kind)
    /\ ~store[MakeKey(Prefix(cache_ret.kind), cache_ret.url)].present

\* C13: set_menu_text followed by get_menu_text of the same URL, with no
\* set, delete or expiry of the key in between, returns exactly the text set
C13_SetThenGet ==
    (cache_ret.op = "get" /\ cache_ret.kind = "text" /\ ShadowLive) =>
        /\ ~cache_ret.none
        /\ cache_ret.value = shadow[<< "text", cache_ret.url >>].value

\* C14: a failure of the cache backend on a get or a set during a run of the
\* locator is taken as a miss; it never makes the locator return the
\* failure
C14_CacheFailureIsMiss ==
    mpc = "done" => parse_result.error # CacheErr

\* C15: no text shorter than MIN_CONTENT_LENGTH is written to the cache by
\* the locator, whichever strategy found it
C15_OnlySufficientTextCached ==
    \A i \in 1..Len(log) :
        log[i].op = "cache_set" => log[i].len >= MIN_CONTENT_LENGTH

\* the changes of status the code makes: task_queue.py:244 (RUNNING), 249,
\* 259 and 264 (COMPLETED, FAILED), 390 (CANCELLED, of a PENDING task only)
StatusChanges ==
    { << "pending", "running" >>, << "pending", "cancelled" >>,
      << "running", "completed" >>, << "running", "failed" >> }

\* the changes of status along Pending -> Running -> {Completed, Failed,
\* Cancelled}
StatusChangesThroughRunning ==
    { << "pending", "running" >>, << "running", "completed" >>,
      << "running", "failed" >>, << "running", "cancelled" >> }

HistoryWithin(changes) ==
    \A i \in 1..Len(tasks) :
       LET h == tasks[i].hist IN
       /\ h[1] = "pending"
       /\ h[Len(h)] = tasks[i].status
       /\ \A k \in 1..(Len(h) - 1) : << h[k], h[k + 1] >> \in changes

C17_CallbackThrowMarksFailed ==
    /\ q_running => workers = max_workers
    /\ \A i \in 1..Len(tasks) :
          tasks[i].phase = "callback_raised" => tasks[i].status = "failed"

\* C18: submit_and_wait always returns a TaskResult, never None: the outcome
\* of the task (success, or failure with the error of the task) when the
\* task had finished by the time it returns, otherwise a failure with error
\* "Timeout"; and a task that was still Pending at the timeout is Cancelled.
C18_WaitReturnsOutcome ==
    \A i \in 1..Len(tasks) :
       tasks[i].wait = "returned" =>
          LET r == tasks[i].ret IN
          /\ ~r.none
          /\ IF r.status \in {"completed", "failed"}
             THEN /\ r.success = (r.status = "completed")
                  /\ r.error = tasks[i].error
             ELSE /\ ~r.success
                  /\ r.error = "Timeout"
          /\ r.status = "pending" => tasks[i].status = "cancelled"

\* C19: the task queue serves tasks by priority: whenever a worker takes a
\* task from the queue, no task of strictly higher priority is waiting in
\* the queue at that moment (HIGH before NORMAL before LOW).
C19_ServedByPriority ==
    \A i \in 1..Len(tasks) : ~tasks[i].passed_higher

\* a worker has taken a task while a task of lower priority, submitted
\* before it, is still waiting in the queue
C19_Witness ==
    \E i, j \in 1..Len(tasks) :
       /\ i < j
       /\ tasks[j].priority > tasks[i].priority
       /\ tasks[j].phase # "queued"
       /\ tasks[i].phase = "queued"
       /\ \E e \in queue : e.id = i

\* C20: in HttpClient.get a response with status >= 500 gets a single retry
\* after a fixed delay: when the call has returned, the first >= 500
\* response of the call was followed by the fixed delay and by another
\* request, whatever responses came before it, and any later >= 500
\* response was the last one, with the call answering failure.
C20_ServerErrorRetriedOnce ==
    h_pc = "done" =>
       \A k \in 1..Len(h_log) :
          ServerError(h_log[k].status) =>
             IF \A j \in 1..(k - 1) : ~ServerError(h_log[j].status)
             THEN /\ h_log[k].sleep = 1
                  /\ Len(h_log) > k
             ELSE /\ k = Len(h_log)
                  /\ h_ret = "None"

\* a request that ends the call without a retry: a 403, or the request
\* raised (timeout, DNS or network failure)
NoRetryOutcome(r) == r \in {403, Raised}

\* C21: in HttpClient.get, after a 403 response, a timeout or a DNS/network
\* failure at any attempt no further request is issued and the call has
\* returned None; the call issues at most max_retries requests; and a call
\* that has started returns.
C21_NoRetryAndTerminates ==
    /\ [](\A k \in 1..Len(h_log) :
            NoRetryOutcome(h_log[k].status) =>
               /\ k = Len(h_log)
               /\ h_pc = "done"
               /\ h_ret = "None")
    /\ [](Len(h_log) <= h_max_retries)
    /\ ((h_pc = "loop") ~> (h_pc = "done"))

\* a call that was rate limited first and then met a 403 or a failed
\* request at a later attempt has returned None
C21_Witness ==
    /\ h_pc = "done"
    /\ h_ret = "None"
    /\ Len(h_log) >= 2
    /\ h_log[1].status = 429
    /\ NoRetryOutcome(h_log[Len(h_log)].status)

\* C22: for every domain, any two consecutive requests that HttpClient.get
\* sends to that domain are at least the limiter's minimum interval apart,
\* under any interleaving of concurrent calls and including the retry
\* attempts of one call.
C22_RequestsSpacedPerDomain ==
    \A d \in Domains :
       \A k \in 1..(Len(r_reqs[d]) - 1) :
          r_reqs[d][k + 1] - r_reqs[d][k] >= MinInterval(d)

\* search_dish calls in flight
InFlight == Cardinality({k \in Tasks : tpc[k] = "searching"})

\* the batch of 5 a place of the progressive search belongs to
BatchOf(k) == (k - 1) \div batch_size

\* C23: at every moment the number of search_dish calls in flight is at
\* most the limit of the semaphore, max_concurrent in search_dish_batch and
\* 2 in search_dish_progressive; and search_dish_progressive starts no
\* place of the next batch of 5 before every place of the current batch
\* has finished.
C23_BoundedConcurrency ==
    /\ InFlight <= max_concurrent
    /\ on_found \/ target_count > 0 => max_concurrent = ProgressiveSlots
    /\ \A k, j \in Tasks :
          BatchOf(k) < BatchOf(j) /\ tpc[j] # "none"
             => tpc[k] \in {"done", "raised", "callback_raised"}

\* as many searches are in flight as the semaphore allows, and a place
\* waits for a slot
C23_Witness ==
    /\ InFlight = max_concurrent
    /\ \E k \in Tasks : tpc[k] = "waiting"

\* C24: search_dish_batch returns exactly one result per input restaurant,
\* in the order of the input: for a restaurant whose search_dish raised, a
\* failure entry (MENU_UNAVAILABLE with the error text); for every other
\* restaurant the result its own search_dish returned.
C24_OneResultPerRestaurant ==
    (ppc = "returned" /\ target_count = 0) =>
       /\ Len(returned) = restaurants
       /\ \A k \in Tasks :
             /\ returned[k].restaurant = k
             /\ IF tpc[k] = "raised"
                THEN /\ returned[k].status = "MENU_UNAVAILABLE"
                     /\ returned[k].error_message = SearchErr
                ELSE \E res \in SearchDishResults : returned[k] = Tag(k, res)

\* a batch of three was handed back: search_dish raised for the second
\* restaurant and found the dish for the first and the third
C24_Witness ==
    /\ ppc = "returned" /\ target_count = 0
    /\ restaurants = 3
    /\ tpc[2] = "raised"
    /\ returned[1].status = "FOUND"
    /\ returned[3].status = "FOUND"

\* C25: in search_dish_progressive on_found is started exactly once for
\* every result appended to the found list, in the step of the append and
\* so before any other result is appended, and only for results with
\* status FOUND or FOUND_NO_PRICE; a callback that raised leaves its result
\* in the list that is returned, and the search ends only when no batch is
\* left or the target is reached.
C25_CallbackPerAppend ==
    /\ notified = IF on_found THEN found_results ELSE << >>
    /\ \A i \in 1..Len(notified) :
          notified[i].status \in {"FOUND", "FOUND_NO_PRICE"}
    /\ \A k \in Tasks :
          tpc[k] = "callback_raised" =>
             \E i \in 1..Len(found_results) : found_results[i] = tres[k]
    /\ (ppc = "returned" /\ target_count > 0) =>
          /\ returned = found_results
          /\ \/ batch_i >= restaurants
             \/ Len(found_results) >= target_count

\* the callback raised for the first result found; the search went on,
\* found a second one and returned both
C25_Witness ==
    /\ ppc = "returned"
    /\ Len(returned) >= 2
    /\ tpc[returned[1].restaurant] = "callback_raised"
    /\ notified = returned

\* C26: under any interleaving of concurrent first calls of render_page, as
\* long as no launch has failed or been cancelled and close has not been
\* called, every caller holds the same single BrowserService instance, at
\* most one browser has been launched; and never two callers are launching
\* a browser for the same service at the same time.
C26_OneInstanceOneLaunch ==
    /\ \A s \in Services :
          Cardinality({c \in Renders : b_call[c].pc = "launching"
                                        /\ b_call[c].svc = s}) <= 1
    /\ (~b_failed /\ b_close.calls = 0 /\ b_close.pc = "idle") =>
          /\ b_launched <= 1
          /\ \A c \in Renders : b_call[c].svc \in {0, b_instance}
          /\ Cardinality({b_call[c].svc : c \in Renders} \ {0}) <= 1

\* two callers render at the same time in the one browser launched
C26_Witness ==
    /\ b_close.calls = 0 /\ b_close.pc = "idle" /\ ~b_failed
    /\ \A c \in Renders : b_call[c].pc = "rendering" /\ b_pages[c] = 1
    /\ b_launched = 1

\* C27: after close_browser has completed and every render call has
\* returned, with no instance created since, no browser that was launched
\* remains open, also when close_browser ran concurrently with render
\* calls holding the old service instance.
C27_NoBrowserLeftOpen ==
    (/\ b_close.pc = "idle" /\ b_close.calls >= 1
     /\ b_instance = 0
     /\ \A c \in Renders : b_call[c].pc \in {"idle", "done"})
        => b_open = {}

\* C28: every page opened by render_page is closed when that call ends, on
\* success, on a navigation error and when the timeout of the Menu Locator
\* cancels the call: a call that has ended has no page open, so whenever no
\* render call is in progress, no page is open.
C28_PagesClosedAtEnd ==
    /\ \A c \in Renders : b_call[c].pc \in {"idle", "done"} => b_pages[c] = 0
    /\ \A c \in Renders : b_pages[c] # 0 => b_call[c].pc = "rendering"

\* both calls opened a page and have ended, one by the cancellation, one
\* with a failure of the navigation
C28_Witness ==
    /\ \A c \in Renders : b_call[c].pc = "done" /\ b_call[c].page
    /\ \E c \in Renders : b_call[c].out = "cancelled"
    /\ \E c \in Renders : b_call[c].out \in {"error", "timeout"}

\* C29: normalize_for_search is idempotent for all inputs: applied to its
\* own result it returns that result, also when punctuation stands between
\* spaces or at the end of the text.
C29_NormalizeIdempotent ==
    Len(t_norm) = 3 => t_norm[3] = t_norm[2]

\* C30: for all dish names and texts, if normalize_for_search(dish) is a
\* substring of normalize_for_search(text), find_dish_in_text returns an
\* offset, the one of the first occurrence of the normalized dish in the
\* normalized text.
C30_SubstringIsFound ==
    (/\ t_pos # NotRun
     /\ FindFrom(normalize_for_search(t_dish),
                 normalize_for_search(t_text), 0) >= 0)
        => /\ t_pos # NotFound
           /\ t_pos = FindFrom(normalize_for_search(t_dish),
                               normalize_for_search(t_text), 0)

\* the same for the dish names that normalize to a text that is not empty
FoundWhenDishNotEmpty ==
    normalize_for_search(t_dish) # << >> => C30_SubstringIsFound

\* the matches of the window of extract_price whose number is within
\* 50..50000
InRangeInWindow ==
    {p \in Offsets : /\ WindowStart(e_anchor) <= p /\ p < WindowEnd(e_anchor)
                     /\ 50 <= e_marks[p] /\ e_marks[p] <= 50000}

\* C31: extract_price returns (None, None), or a price between 50 and 50000
\* together with the text of a match of that price in the window; it
\* returns (None, None) when no match of the window is in range.
C31_PriceWithinRange ==
    e_ret # PriceNotRun =>
        /\ \/ e_ret = NoPrice
           \/ /\ 50 <= e_ret.price /\ e_ret.price <= 50000
              /\ e_ret.at \in InRangeInWindow
              /\ e_marks[e_ret.at] = e_ret.price
        /\ InRangeInWindow = {} => e_ret = NoPrice

\* a price at the limit is returned from a window that also holds numbers
\* just outside the range
C31_Witness ==
    /\ e_ret # PriceNotRun /\ e_ret.price = 50000
    /\ \E p, q \in Offsets \cap WindowStart(e_anchor)..(WindowEnd(e_anchor) - 1) :
          e_marks[p] = 49 /\ e_marks[q] = 50001

\* a window with matches, none of them in range: nothing is returned
C31_WitnessNone ==
    /\ e_ret = NoPrice
    /\ \E p \in Offsets \cap WindowStart(e_anchor)..(WindowEnd(e_anchor) - 1) :
          e_marks[p] = 50001

\* C32: if the window holds an in-range match that starts at or after the
\* anchor, extract_price returns the in-range match at or after the anchor
\* that is nearest to the anchor, for every anchor, also one closer than 30
\* characters to the start of the text.
C32_NearestAfterAnchor ==
    LET after == {p \in InRangeInWindow : p >= e_anchor}
    IN (e_ret # PriceNotRun /\ after # {}) =>
          /\ e_ret.at \in after
          /\ \A q \in after : e_ret.at <= q

\* the same for the anchors that have the whole lookback before them
NearestAfterFarAnchor ==
    e_anchor >= Lookback => C32_NearestAfterAnchor

\* C33: in search_dish_progressive a search_dish call begins for a place
\* only while the found list is shorter than target_count, at the moment
\* the place has the semaphore; so the found list exceeds target_count by no
\* more than the places that were in flight when it was reached.
C33_NoStartOnceTargetFound ==
    /\ [][ppc = "progressive" =>
            \A k \in 1..restaurants :
               (tpc[k] # "searching" /\ tpc'[k] = "searching")
                  => Len(found_results) < target_count]_vars
    /\ [](ppc = "progressive" =>
            Len(found_results) <= target_count + ProgressiveSlots - 1)

\* the target is reached while a place still waits for the semaphore
C33_Witness ==
    /\ ppc = "progressive"
    /\ Len(found_results) >= target_count
    /\ \E k \in 1..restaurants : tpc[k] = "waiting"

\* C34: every task submitted with a completion callback that has ended
\* Completed or Failed has had that callback invoked and removed from the
\* registry, also a task whose type has no registered handler, so that
\* submit_and_wait has received the outcome by then.
C34_CallbackInvokedAndRemoved ==
    \A i \in 1..Len(tasks) :
       (/\ tasks[i].status \in {"completed", "failed"}
        /\ tasks[i].phase \in {"finished", "callback_raised"})
          => /\ tasks[i].cb = "none"
             /\ tasks[i].wait # "none" => tasks[i].wait = "returned"

\* the same for the tasks whose type has a handler
CallbackRemovedWithHandler ==
    \A i \in 1..Len(tasks) :
       (/\ tasks[i].status \in {"completed", "failed"}
        /\ tasks[i].phase \in {"finished", "callback_raised"}
        /\ HasHandler(tasks[i].task_type))
          => /\ tasks[i].cb = "none"
             /\ tasks[i].wait # "none" => tasks[i].wait = "returned"

\* C35: no task stays Running forever: with handlers that terminate, every
\* task that enters Running eventually reaches Completed or Failed, also
\* when stop() cancels the workers while the handler of the task executes.
C35_RunningEnds ==
    \A i \in 1..MaxTasks :
       (i <= Len(tasks) /\ tasks[i].status = "running")
          ~> (i <= Len(tasks) /\ tasks[i].status \in {"completed", "failed"})

\* C36: a task cancelled while Pending is never executed: cancel_task
\* returns true for a Pending task and sets it Cancelled, after which no
\* worker runs its handler or callback and its status stays Cancelled;
\* for a task that is Running or already terminal cancel_task returns false
\* and changes nothing.
C36_CancelledNeverExecuted ==
    /\ [][\A i \in 1..Len(tasks) :
             tasks[i].status = "cancelled" =>
                /\ tasks'[i].status = "cancelled"
                /\ tasks'[i].phase \in {"queued", "skipped"}]_vars
    /\ [](\A i \in 1..Len(tasks) :
             /\ tasks[i].status = "cancelled" =>
                   /\ tasks[i].hist = << "pending", "cancelled" >>
                   /\ tasks[i].phase \in {"queued", "skipped"}
             /\ cancel_task(tasks[i]) =
                   IF tasks[i].status = "pending"
                   THEN [ret |-> TRUE,
                         task |-> [tasks[i] EXCEPT
                                     !.status = "cancelled",
                                     !.hist = << "pending", "cancelled" >>]]
                   ELSE [ret |-> FALSE, task |-> tasks[i]])

\* a worker has taken a cancelled task from the queue and passed it over,
\* while another task is Running, for which cancel_task returns false
C36_Witness ==
    \E i, j \in 1..Len(tasks) :
       /\ tasks[i].hist = << "pending", "cancelled" >>
       /\ tasks[i].phase = "skipped"
       /\ tasks[j].status = "running"

\* what menu_cache.get_menu_text(url) gives to a run that follows the one
\* just ended, before anything expires: the text the ended run stored with
\* set_menu_text under that very URL, if it stored one (the ended run found
\* nothing usable under the URL of the website, or it would not have gone on)
GetAfterRun(url) ==
    LET last == log[Len(log)]
    IN IF last.op = "cache_set" /\ last.url = url
       THEN [kind |-> "hit", text |-> [len |-> last.len, ind |-> 0]]
       ELSE [kind |-> "miss", text |-> NoneText]

\* the run of find_and_parse_menu has ended with success after storing a text
RunStoredText ==
    /\ mpc = "done" /\ parse_result.success
    /\ Len(log) > 0 /\ log[Len(log)].op = "cache_set"

\* C37: a menu text that a successful static run of find_and_parse_menu
\* stored (from the root, a followed link or a common path) is found by the
\* next run for the same website: its lookup of the cache (STEP 1) is a hit,
\* so that it is answered from the cache without any HTTP request.
C37_StoredTextFoundAgain ==
    RunStoredText => CacheHit(GetAfterRun(website))

\* the same for the texts of sufficient length stored from the root page
StoredRootTextFoundAgain ==
    (/\ RunStoredText
     /\ log[Len(log)].url = website
     /\ log[Len(log)].len >= MIN_CONTENT_LENGTH)
        => CacheHit(GetAfterRun(website))

\* the original text from the offset find_dish_in_text returned, normalized,
\* starts with the normalized dish name
OffsetPointsAtDish ==
    LET dish == normalize_for_search(t_dish)
        rest == normalize_for_search(SubSeq(t_text, t_pos + 1, Len(t_text)))
    IN /\ Len(dish) <= Len(rest)
       /\ SubSeq(rest, 1, Len(dish)) = dish

\* C38: the offset find_dish_in_text returns for a dish found by exact match
\* points at the dish in the original text, to which the pipeline applies
\* it as the anchor of extract_price: the original text from that offset on,
\* once normalized, starts with the normalized dish name, also when
\* punctuation or repeated whitespace precedes the dish.
C38_OffsetIntoOriginalText ==
    (/\ t_pos >= 0
     /\ FindFrom(normalize_for_search(t_dish),
                 normalize_for_search(t_text), 0) = t_pos)
        => OffsetPointsAtDish

\* the same for the texts that normalization leaves as they are
OffsetPointsAtDishInNormalText ==
    (t_pos >= 0 /\ normalize_for_search(t_text) = t_text)
        => OffsetPointsAtDish


\* a call of process_location has returned and no other handler ran since it
\* began
ReturnedWith(outcomes) ==
    /\ c_pc = "idle"
    /\ c_quiet
    /\ c_outcome \in outcomes

\* C39: when geocoding of the entered location fails, the conversation is in
\* state waiting_for_location after process_location has returned; in every
\* other outcome (results, no results, exception) the state is cleared.
C39_GeocodeFailureWaitsForLocation ==
    /\ ReturnedWith({"geocode_failed"}) => c_state = "waiting_for_location"
    /\ ReturnedWith({"results", "no_results", "exception"}) => c_state = "None"

\* what holds instead: the state is cleared on every way out of the try of
\* process_location, the failed geocoding included
ClearedAfterEveryOutcome ==
    ReturnedWith({"geocode_failed", "results", "no_results", "exception"})
        => c_state = "None" /\ c_data = "None"

\* and so a text sent after a failed geocoding goes to the catch-all handler,
\* not to process_location
AddressAfterFailedGeocodeNotProcessed ==
    [][(ReturnedWith({"geocode_failed"}) /\ c_updates' = c_updates + 1
            /\ c_handled' \notin {"cmd_start", "cmd_help", "cmd_cancel",
                                  "start_search", "callback_new_search"})
         => c_handled' = "debug_catch_all"]_vars

\* a failed geocoding has returned
GeocodeFailureReturned == ReturnedWith({"geocode_failed"})

\* a text was sent right after a failed geocoding
AddressSentAfterFailedGeocode ==
    c_outcome = "geocode_failed" /\ c_pc = "idle" /\ c_handled = "debug_catch_all"

====
